---- MODULE Spec2Model ----
(***************************************************************************)
(* Model of mcp-chain: the chain-building core (MCPChainBuilder,           *)
(* MiddlewareMCPServer), the CLI command adapter (CLIMCPServer), the       *)
(* external subprocess adapter (ExternalMCPServer), the protocol engine    *)
(* bridge (FastMCPServer), serve, the command-line launcher (cli.main) and *)
(* the JSON-facing front adapter (FrontMCPServer).                         *)
(*                                                                         *)
(* Objects live in a heap (a sequence of records, the index is the object  *)
(* identity).  Transformers are Python callables; they are modelled as     *)
(* values [t, k] naming the function and interpreted by CallFn, which does *)
(* what the function bodies of the test-suite do.                          *)
(*                                                                         *)
(* Specifications: Spec (chain core), CLISpec (construction and metadata   *)
(* of the CLI adapter), CLICallSpec (requests to the CLI adapter), ExtSpec *)
(* (the external adapter and its child processes), BridgeSpec (the         *)
(* construction of the bridge and its registered handlers), LaunchSpec     *)
(* (serve and the launcher), FrontSpec (the front adapter), CLIChainSpec   *)
(* (a middleware node over the CLI adapter), PipeSpec (the calls of the    *)
(* external adapter step by step, for two callers and a child process).    *)
(***************************************************************************)
EXTENDS Integers, Sequences, FiniteSets, TLC

(* ------------------------------ bounds --------------------------------- *)
MaxNodes == 9      \* objects in the heap (builders, terminals, middleware)
MaxCalls == 1      \* cap of a terminal's handle_request_calls counter
NumTags  == 2      \* distinct tagging transformers T1..Tn

Tags == 1..NumTags

(* ------------------------------ values --------------------------------- *)
\* Every Python value handed to then() is a record [t, k].
Obj(i)  == [t |-> "obj", k |-> i]          \* reference to heap object i
Fn(n,k) == [t |-> n, k |-> k]              \* a function object

NoneVal == Fn("None", 0)

\* first_req_transformer / second_req_transformer of test_architecture.py:
\* marks the request, calls downstream once, marks the response.
Wrap(k) == Fn("wrap", k)
\* conditional_request_transformer of test_transformers.py: calls downstream
\* only when the request is authorized, otherwise returns its own response.
Cond == Fn("cond", 0)
\* lambda next_mcp, req: next_mcp.handle_request(req)  (written by the user)
Pass == Fn("pass", 0)
\* first_transformer / second_transformer of test_chain_building.py:
\* prefixes its tag to the tool description obtained from downstream.
Tag(k) == Fn("tag", k)
\* lambda next_mcp, _: next_mcp.get_metadata()  (written by the user)
IdentityMetadata == Fn("identity_metadata", 0)
\* the two lambdas MiddlewareMCPServer.__init__ installs for None
DefaultMetadata == Fn("default_metadata", 0)
DefaultRequest  == Fn("default_request", 0)

RequestFns  == {Wrap(k) : k \in Tags} \cup {Cond}
MetadataFns == {Tag(k) : k \in Tags} \cup {IdentityMetadata}

\* the error messages of the three ValueErrors (the code writes then between
\* back quotes in the second one)
ErrNoDownstream == "No downstream server configured"
ErrCannotChain  == "Cannot chain on downstream server: it has no then method"
ErrUnsupported  == "Unsupported arguments to then()"

(* ------------------------------ heap ----------------------------------- *)
BuilderObj == [kind |-> "builder", down |-> 0, mt |-> NoneVal, rt |-> NoneVal,
               calls |-> 0]
\* a terminal in the style of TrackingServer (test_transformers.py)
TerminalObj == [kind |-> "terminal", down |-> 0, mt |-> NoneVal, rt |-> NoneVal,
                calls |-> 0]

\* MiddlewareMCPServer.__init__: None transformers become the default lambdas
MiddlewareInit(down, mt, rt) ==
  [kind |-> "mw", down |-> down,
   mt |-> IF mt = NoneVal THEN DefaultMetadata ELSE mt,
   rt |-> IF rt = NoneVal THEN DefaultRequest ELSE rt,
   calls |-> 0]

\* hasattr(x, 'then'): builders and middleware nodes have it, terminals and
\* functions do not
HasThen(h, v) == v.t = "obj" /\ h[v.k].kind \in {"builder", "mw"}
\* hasattr(arg, 'get_metadata') and hasattr(arg, 'handle_request')
IsChainNode(v) == v.t = "obj"

VARIABLES heap, built, chain, partial, other, last,   \* the chain core
          cli, cli_last,                              \* the CLI adapter
          ext, children, wire, ext_last,              \* the external adapter
          pproc, kids, thr, phist,                    \* its calls step by step
          bridge, br_last,                            \* the engine bridge
          launch_last,                                \* serve and the launcher
          front_last                                  \* the front adapter

chainVars == <<heap, built, chain, partial, other, last>>
cliVars == <<cli, cli_last>>
pipeVars == <<pproc, kids, thr, phist>>
extVars == <<ext, children, wire, ext_last, pipeVars>>
hostVars == <<bridge, br_last, launch_last, front_last>>
vars == <<heap, built, chain, partial, other, last, cli, cli_last,
          ext, children, wire, ext_last, pproc, kids, thr, phist, bridge,
          br_last, launch_last, front_last>>

(* --------------------------- call results ------------------------------ *)
\* A request: `authorized` is the key conditional_request_transformer reads,
\* `marks` the keys the wrapping transformers have added so far.
EmptyRequest == [authorized |-> FALSE, marks |-> <<>>]
Requests == {[authorized |-> a, marks |-> <<>>] : a \in BOOLEAN}

\* A returned mapping.  src: object that produced it (0: a transformer's own
\* response); desc: tool description as the list of prefixes, 0 is the
\* terminal's own text; received: marks of the request the terminal saw;
\* processed: marks added to the response on the way back.
Value(kind, src, desc, received, processed) ==
  [kind |-> kind, src |-> src, desc |-> desc, received |-> received,
   processed |-> processed]
NoValue == Value("none", 0, <<>>, <<>>, <<>>)

\* outcome of a call: a returned value or a raised ValueError, together with
\* the trace of functions entered/left and the terminals whose
\* handle_request ran
Return(v, ev, hit) == [ok |-> TRUE, err |-> "", val |-> v, events |-> ev, hit |-> hit]
Raise(e, ev, hit)  == [ok |-> FALSE, err |-> e, val |-> NoValue, events |-> ev, hit |-> hit]

Pre(f)  == <<"pre", f.t, f.k>>
Post(f) == <<"post", f.t, f.k>>
TerminalEvent(n) == <<"terminal", "handle_request", n>>
MetadataEvent(n) == <<"terminal", "get_metadata", n>>

RECURSIVE handle_request(_, _, _)
RECURSIVE get_metadata(_, _)

\* Body of a function object called as f(next_server, request).  The
\* functions are plain callables: a metadata-style function called with a
\* request ignores it and works on next_server.get_metadata().
CallFn(h, f, d, req) ==
  CASE f.t = "wrap" ->
         LET r == handle_request(h, d, [req EXCEPT !.marks = @ \o <<f.k>>])
         IN IF r.ok
            THEN Return([r.val EXCEPT !.processed = @ \o <<f.k>>],
                        <<Pre(f)>> \o r.events \o <<Post(f)>>, r.hit)
            ELSE Raise(r.err, <<Pre(f)>> \o r.events, r.hit)
    [] f.t = "cond" ->
         IF req.authorized
         THEN LET r == handle_request(h, d, req)
              IN [r EXCEPT !.events = <<Pre(f)>> \o @]
         ELSE Return(Value("response", 0, <<>>, <<>>, <<>>), <<Pre(f)>>, {})
    [] f.t \in {"pass", "default_request"} ->
         LET r == handle_request(h, d, req)
         IN [r EXCEPT !.events = <<Pre(f)>> \o @]
    [] f.t = "tag" ->
         LET r == get_metadata(h, d)
         IN IF r.ok
            THEN Return([r.val EXCEPT !.desc = <<f.k>> \o @],
                        <<Pre(f)>> \o r.events \o <<Post(f)>>, r.hit)
            ELSE Raise(r.err, <<Pre(f)>> \o r.events, r.hit)
    [] f.t \in {"identity_metadata", "default_metadata"} ->
         LET r == get_metadata(h, d)
         IN [r EXCEPT !.events = <<Pre(f)>> \o @]

\* variant: a builder answers get_metadata with empty metadata
get_metadata_empty(h, n) ==
  CASE h[n].kind = "builder"  ->
         Return(Value("metadata", n, <<>>, <<>>, <<>>), <<>>, {})
    [] h[n].kind = "terminal" ->
         Return(Value("metadata", n, <<0>>, <<>>, <<>>), <<MetadataEvent(n)>>, {})
    [] h[n].kind = "mw" ->
         IF h[n].down = 0
         THEN Raise(ErrNoDownstream, <<>>, {})
         ELSE CallFn(h, h[n].mt, h[n].down, EmptyRequest)

\* x.get_metadata() for heap object x
get_metadata(h, n) ==
  CASE h[n].kind = "builder"  -> Raise(ErrNoDownstream, <<>>, {})
    [] h[n].kind = "terminal" ->
         Return(Value("metadata", n, <<0>>, <<>>, <<>>), <<MetadataEvent(n)>>, {})
    [] h[n].kind = "mw" ->
         IF h[n].down = 0
         THEN Raise(ErrNoDownstream, <<>>, {})
         ELSE CallFn(h, h[n].mt, h[n].down, EmptyRequest)

\* variant: a middleware node forwards to its downstream without calling its
\* request transformer
handle_request_bypass(h, n, req) ==
  CASE h[n].kind = "builder"  -> Raise(ErrNoDownstream, <<>>, {})
    [] h[n].kind = "terminal" ->
         Return(Value("response", n, <<>>, req.marks, <<>>), <<TerminalEvent(n)>>, {n})
    [] h[n].kind = "mw" ->
         IF h[n].down = 0
         THEN Raise(ErrNoDownstream, <<>>, {})
         ELSE handle_request(h, h[n].down, req)

\* variant: a middleware node calls its downstream itself before it calls
\* the request transformer
handle_request_eager(h, n, req) ==
  CASE h[n].kind = "builder"  -> Raise(ErrNoDownstream, <<>>, {})
    [] h[n].kind = "terminal" ->
         Return(Value("response", n, <<>>, req.marks, <<>>), <<TerminalEvent(n)>>, {n})
    [] h[n].kind = "mw" ->
         IF h[n].down = 0
         THEN Raise(ErrNoDownstream, <<>>, {})
         ELSE LET d == handle_request(h, h[n].down, req)
                  r == CallFn(h, h[n].rt, h[n].down, req)
              IN [r EXCEPT !.events = d.events \o @, !.hit = d.hit \cup @]

\* x.handle_request(req) for heap object x
handle_request(h, n, req) ==
  CASE h[n].kind = "builder"  -> Raise(ErrNoDownstream, <<>>, {})
    [] h[n].kind = "terminal" ->
         Return(Value("response", n, <<>>, req.marks, <<>>), <<TerminalEvent(n)>>, {n})
    [] h[n].kind = "mw" ->
         IF h[n].down = 0
         THEN Raise(ErrNoDownstream, <<>>, {})
         ELSE CallFn(h, h[n].rt, h[n].down, req)

(* ------------------------------- then ---------------------------------- *)
\* outcome of x.then(*args): the heap afterwards, the call history of every
\* object, and the object returned (0 with err set when it raised)
ThenOk(h, b, res) == [ok |-> TRUE, err |-> "", heap |-> h, built |-> b, result |-> res]
ThenErr(h, b, e)  == [ok |-> FALSE, err |-> e, heap |-> h, built |-> b, result |-> 0]

\* variant: a chain node given to the builder is wrapped in a middleware node
BuilderThen_wrap(h, b, p, args) ==
  IF Len(args) = 1
  THEN IF IsChainNode(args[1])
       THEN ThenOk(Append(h, MiddlewareInit(args[1].k, NoneVal, NoneVal)),
                   Append(b, Append(b[p], args)), Len(h) + 1)
       ELSE ThenOk(Append(h, MiddlewareInit(p, NoneVal, args[1])),
                   Append(b, Append(b[p], args)), Len(h) + 1)
  ELSE IF Len(args) = 2
       THEN ThenOk(Append(h, MiddlewareInit(p, args[1], args[2])),
                   Append(b, Append(b[p], args)), Len(h) + 1)
       ELSE ThenErr(h, b, ErrUnsupported)

\* variant: a single function is installed as the metadata transformer
BuilderThen_metadata(h, b, p, args) ==
  IF Len(args) = 1
  THEN IF IsChainNode(args[1])
       THEN ThenOk(h, b, args[1].k)
       ELSE ThenOk(Append(h, MiddlewareInit(p, args[1], NoneVal)),
                   Append(b, Append(b[p], args)), Len(h) + 1)
  ELSE IF Len(args) = 2
       THEN ThenOk(Append(h, MiddlewareInit(p, args[1], args[2])),
                   Append(b, Append(b[p], args)), Len(h) + 1)
       ELSE ThenErr(h, b, ErrUnsupported)

\* MCPChainBuilder.then
BuilderThen(h, b, p, args) ==
  IF Len(args) = 1
  THEN IF IsChainNode(args[1])
       THEN ThenOk(h, b, args[1].k)
       ELSE ThenOk(Append(h, MiddlewareInit(p, NoneVal, args[1])),
                   Append(b, Append(b[p], args)), Len(h) + 1)
  ELSE IF Len(args) = 2
       THEN ThenOk(Append(h, MiddlewareInit(p, args[1], args[2])),
                   Append(b, Append(b[p], args)), Len(h) + 1)
       ELSE ThenErr(h, b, ErrUnsupported)

RECURSIVE then(_, _, _, _)

\* variant: a middleware node given transformers wraps itself in the new
\* node instead of delegating to its downstream (last attached is outermost)
then_outermost(h, b, p, args) ==
  IF h[p].kind = "builder"
  THEN BuilderThen(h, b, p, args)
  ELSE IF h[p].down = 0
       THEN ThenErr(h, b, ErrNoDownstream)
       ELSE IF HasThen(h, Obj(h[p].down))
            THEN IF Len(args) \in {1, 2} /\ ~IsChainNode(args[1])
                 THEN ThenOk(Append(h, MiddlewareInit(p,
                                IF Len(args) = 2 THEN args[1] ELSE NoneVal,
                                args[Len(args)])),
                             Append(b, Append(b[p], args)), Len(h) + 1)
                 ELSE LET child == then(h, b, h[p].down, args)
                      IN IF child.ok
                         THEN ThenOk(Append(child.heap,
                                       MiddlewareInit(child.result, h[p].mt, h[p].rt)),
                                     Append(child.built, Append(b[p], args)),
                                     Len(child.heap) + 1)
                         ELSE child
            ELSE ThenErr(h, b, ErrCannotChain)

\* variant: a middleware node over a terminal accepts transformers and wraps
\* itself in the new node
then_past_terminal(h, b, p, args) ==
  IF h[p].kind = "builder"
  THEN BuilderThen(h, b, p, args)
  ELSE IF h[p].down = 0
       THEN ThenErr(h, b, ErrNoDownstream)
       ELSE IF HasThen(h, Obj(h[p].down))
            THEN LET child == then(h, b, h[p].down, args)
                 IN IF child.ok
                    THEN ThenOk(Append(child.heap,
                                       MiddlewareInit(child.result, h[p].mt, h[p].rt)),
                                Append(child.built, Append(b[p], args)),
                                Len(child.heap) + 1)
                    ELSE child
            ELSE IF Len(args) = 2
                 THEN ThenOk(Append(h, MiddlewareInit(p, args[1], args[2])),
                             Append(b, Append(b[p], args)), Len(h) + 1)
                 ELSE ThenErr(h, b, ErrCannotChain)

\* variant: a middleware node stores the extended downstream in itself and
\* returns itself
then_in_place(h, b, p, args) ==
  IF h[p].kind = "builder"
  THEN BuilderThen(h, b, p, args)
  ELSE IF h[p].down = 0
       THEN ThenErr(h, b, ErrNoDownstream)
       ELSE IF HasThen(h, Obj(h[p].down))
            THEN LET child == then(h, b, h[p].down, args)
                 IN IF child.ok
                    THEN ThenOk([child.heap EXCEPT ![p].down = child.result],
                                [child.built EXCEPT ![p] = Append(b[p], args)],
                                p)
                    ELSE child
            ELSE ThenErr(h, b, ErrCannotChain)

\* MiddlewareMCPServer.then (and the dispatch on the receiver's class)
then(h, b, p, args) ==
  IF h[p].kind = "builder"
  THEN BuilderThen(h, b, p, args)
  ELSE IF h[p].down = 0
       THEN ThenErr(h, b, ErrNoDownstream)
       ELSE IF HasThen(h, Obj(h[p].down))
            THEN LET child == then(h, b, h[p].down, args)
                 IN IF child.ok
                    THEN ThenOk(Append(child.heap,
                                       MiddlewareInit(child.result, h[p].mt, h[p].rt)),
                                Append(child.built, Append(b[p], args)),
                                Len(child.heap) + 1)
                    ELSE child
            ELSE ThenErr(h, b, ErrCannotChain)

(* ------------------------------ actions -------------------------------- *)
\* What the caller observed of the last call.
NoCall == [op |-> "none", recv |-> 0, args |-> <<>>, req |-> EmptyRequest,
           ok |-> TRUE, err |-> "", val |-> NoValue, events |-> <<>>,
           result |-> 0, size |-> 0]

\* built[i] is the sequence of then() argument lists by which object i was
\* obtained from mcp_chain(); objects made by a constructor start with this
FromCtor == <<<<Fn("constructor", 0)>>>>

\* the objects of the initial heap
TheBuilder  == 1    \* mcp_chain()
TheTerminal == 2    \* a terminal server
BareMw      == 3    \* MiddlewareMCPServer(downstream_server=None)
TerminalMw  == 4    \* MiddlewareMCPServer(downstream_server=terminal)

\* argument lists tried on then(): none, the terminal, one function, a
\* (metadata, request) pair, three arguments
ThenArgs ==
  {<<>>, <<Obj(TheTerminal)>>, <<Pass, Pass, Pass>>}
         \cup {<<f>> : f \in RequestFns}
         \cup {<<Tag(k), Pass>> : k \in Tags}
         \cup {<<IdentityMetadata, Wrap(1)>>}

\* The program holds three references: chain, the chain it is building or
\* serving; partial, the value chain had when the program branched off a
\* second continuation; other, that second continuation (0: none yet).
Refs == {"chain", "other"}
Deref(v) == IF v = "chain" THEN chain ELSE other

ChainInit ==
  /\ heap = <<BuilderObj, TerminalObj, MiddlewareInit(0, NoneVal, NoneVal),
              MiddlewareInit(TheTerminal, NoneVal, NoneVal)>>
  /\ built = <<<<>>, FromCtor, FromCtor, FromCtor>>
  /\ chain \in {TheBuilder, BareMw, TerminalMw}
  /\ partial = 0
  /\ other = 0
  /\ last = NoCall

\* v = v.then(*args); the second continuation is only completed with the
\* terminal
Then(v, args) ==
  /\ Deref(v) # 0
  /\ v = "other" => args = <<Obj(TheTerminal)>>
  /\ HasThen(heap, Obj(Deref(v)))
  /\ LET r == then(heap, built, Deref(v), args)
     IN /\ Len(r.heap) <= MaxNodes
        /\ heap' = r.heap
        /\ built' = r.built
        /\ chain' = IF v = "chain" /\ r.ok THEN r.result ELSE chain
        /\ other' = IF v = "other" /\ r.ok THEN r.result ELSE other
        /\ last' = [NoCall EXCEPT !.op = "then", !.recv = Deref(v),
                                  !.args = args, !.ok = r.ok, !.err = r.err,
                                  !.result = r.result, !.size = Len(heap)]
  /\ UNCHANGED <<partial, cliVars, extVars, hostVars>>

\* partial = chain; other = partial.then(*args)   (done once)
Branch(args) ==
  /\ other = 0
  /\ HasThen(heap, Obj(chain))
  /\ LET r == then(heap, built, chain, args)
     IN /\ r.ok
        /\ Len(r.heap) <= MaxNodes
        /\ heap' = r.heap
        /\ built' = r.built
        /\ other' = r.result
        /\ last' = [NoCall EXCEPT !.op = "then", !.recv = chain,
                                  !.args = args, !.ok = r.ok, !.err = r.err,
                                  !.result = r.result, !.size = Len(heap)]
  /\ partial' = chain
  /\ UNCHANGED <<chain, cliVars, extVars, hostVars>>

\* v.get_metadata()
GetMetadata(v) ==
  /\ Deref(v) # 0
  /\ LET r == get_metadata(heap, Deref(v))
     IN last' = [NoCall EXCEPT !.op = "get_metadata", !.recv = Deref(v),
                               !.ok = r.ok, !.err = r.err, !.val = r.val,
                               !.events = r.events, !.size = Len(heap)]
  /\ UNCHANGED <<heap, built, chain, partial, other, cliVars, extVars, hostVars>>

\* v.handle_request(req); a terminal counts the calls it receives
HandleRequest(v, req) ==
  /\ Deref(v) # 0
  /\ \A i \in DOMAIN heap : heap[i].calls < MaxCalls
  /\ LET r == handle_request(heap, Deref(v), req)
     IN /\ heap' = [i \in DOMAIN heap |->
                      IF i \in r.hit THEN [heap[i] EXCEPT !.calls = @ + 1]
                      ELSE heap[i]]
        /\ last' = [NoCall EXCEPT !.op = "handle_request", !.recv = Deref(v),
                                  !.req = req, !.ok = r.ok, !.err = r.err,
                                  !.val = r.val, !.events = r.events,
                                  !.size = Len(heap)]
  /\ UNCHANGED <<built, chain, partial, other, cliVars, extVars, hostVars>>

Next ==
  \/ \E args \in ThenArgs : Branch(args)
  \/ \E v \in Refs : \E args \in ThenArgs : Then(v, args)
  \/ \E v \in Refs : GetMetadata(v)
  \/ \E v \in Refs : \E req \in Requests : HandleRequest(v, req)


(* ======================= CLI command adapter =========================== *)
\* Optional values (None or a value)
None(zero) == [some |-> FALSE, v |-> zero]
Some(x)    == [some |-> TRUE, v |-> x]

MaxCommands == 2      \* longest list given as commands
Cmds == {"a", "b"}    \* command names

ErrNeither == "Either 'command' or 'commands' must be provided"

\* A line of help output after strip(), with what the code's tests on it
\* give: words = len(line.split()); usage = starts with Usage:/usage:/USAGE:;
\* syntax = matches ^[a-zA-Z_-]+\s+\[ ; dashy = starts with -, Options: or
\* Arguments: ; header = starts with DESCRIPTION:/NAME:/SYNOPSIS: ;
\* option = group 2 of (-\w,?\s*)?--(\w+) or "" without match
Line(text, words, usage, syntax, dashy, header, option) ==
  [text |-> text, words |-> words, usage |-> usage, syntax |-> syntax,
   dashy |-> dashy, header |-> header, option |-> option]

\* Output of a process: long = len(text.strip()) > 10
Text(lines, long) == [lines |-> lines, long |-> long]
NoText    == Text(<<>>, FALSE)
ShortText == Text(<<Line("no help", 2, FALSE, FALSE, FALSE, FALSE, "")>>, FALSE)
HelpLs ==
  Text(<<Line("ls - list directory contents", 5, FALSE, FALSE, FALSE, FALSE, ""),
         Line("", 0, FALSE, FALSE, FALSE, FALSE, ""),
         Line("Usage: ls [OPTION]... [FILE]...", 4, TRUE, FALSE, FALSE, FALSE, ""),
         Line("Options:", 1, FALSE, FALSE, TRUE, FALSE, ""),
         Line("-a, --all   do not ignore entries", 6, FALSE, FALSE, TRUE, FALSE, "all"),
         Line("--help   display this help and exit", 6, FALSE, FALSE, TRUE, FALSE, "help")>>,
       TRUE)
HelpUsage ==
  Text(<<Line("usage: a [-h]", 3, TRUE, FALSE, FALSE, FALSE, ""),
         Line("--verbose", 1, FALSE, FALSE, TRUE, FALSE, "verbose")>>, TRUE)
HelpHeader ==
  Text(<<Line("DESCRIPTION:", 1, FALSE, FALSE, FALSE, TRUE, ""),
         Line("--fast mode enabled", 3, FALSE, FALSE, TRUE, FALSE, "fast")>>, TRUE)

\* What one subprocess.run([command, flag]) does: completes with stdout and
\* stderr, or raises TimeoutExpired / FileNotFoundError / another exception
Completed(out, errText) == [kind |-> "completed", stdout |-> out, stderr |-> errText]
Raised(kind) == [kind |-> kind, stdout |-> NoText, stderr |-> NoText]

\* outcomes of the -h run and of the --help run tried for one command
ProbePairs ==
  { <<Completed(HelpLs, NoText), Raised("timeout")>>,
    <<Completed(NoText, HelpUsage), Raised("timeout")>>,
    <<Completed(ShortText, HelpLs), Completed(HelpHeader, NoText)>>,
    <<Raised("timeout"), Completed(HelpLs, NoText)>>,
    <<Raised("not_found"), Raised("not_found")>>,
    <<Raised("error"), Completed(NoText, NoText)>>,
    <<Completed(NoText, NoText), Raised("error")>> }

GenericDescription(c) ==
  IF c = "a" THEN "Execute a command-line tool" ELSE "Execute b command-line tool"

\* CLIMCPServer._get_help_text: [raised, text (optional), spawned]
RECURSIVE HelpLoop(_, _, _)
HelpLoop(pair, i, spawned) ==
  IF i > Len(pair)
  THEN [raised |-> FALSE, text |-> None(NoText), spawned |-> spawned]
  ELSE IF pair[i].kind = "completed"
       THEN LET help_text == IF pair[i].stdout.lines # <<>>
                             THEN pair[i].stdout ELSE pair[i].stderr
            IN IF help_text.lines # <<>> /\ help_text.long
               THEN [raised |-> FALSE, text |-> Some(help_text),
                     spawned |-> spawned + 1]
               ELSE HelpLoop(pair, i + 1, spawned + 1)
       ELSE HelpLoop(pair, i + 1, spawned + 1)

\* variant: an exception of subprocess.run is not caught
get_help_text_uncaught(pair) ==
  IF pair[1].kind # "completed"
  THEN [raised |-> TRUE, text |-> None(NoText), spawned |-> 1]
  ELSE HelpLoop(pair, 1, 0)

get_help_text(pair) == HelpLoop(pair, 1, 0)

\* CLIMCPServer._extract_description
Qualifies(l) ==
  /\ l.text # ""
  /\ ~l.usage
  /\ ~l.syntax
  /\ l.words > 1
  /\ ~l.dashy

extract_description(help_text, c) ==
  LET lines == help_text.lines
      first == {i \in 1..Len(lines) : i <= 10 /\ Qualifies(lines[i])}
      after == {i \in 1..Len(lines) : lines[i].header}
      Min(S) == CHOOSE x \in S : \A y \in S : x <= y
      \* the second scan returns at the first header whose next line has
      \* more than one word
      good == {i \in after : i + 1 <= Len(lines) /\ lines[i + 1].words > 1}
  IN IF first # {} THEN lines[Min(first)].text
     ELSE IF good # {} THEN lines[Min(good) + 1].text
     ELSE GenericDescription(c)

\* CLIMCPServer._extract_input_schema / _create_basic_input_schema: the
\* names of the properties of the schema
extract_input_schema(help_text) ==
  {"_args"} \cup {help_text.lines[i].option : i \in
                    {j \in 1..Len(help_text.lines) :
                       help_text.lines[j].option \notin {"", "help", "version"}}}
create_basic_input_schema == {"_args"}

\* CLIMCPServer.__init__: [ok, err, obj]
NoAdapter == [exists |-> FALSE, name |-> "", command |-> None(""),
              commands |-> <<>>, descriptions |-> <<>>,
              description |-> None(""), cache |-> <<>>]

\* variant: command is looked at before commands
CLIMCPServer_command_first(name, command, commands, description, descriptions) ==
  IF command.some
  THEN [ok |-> TRUE, err |-> "",
        obj |-> [exists |-> TRUE, name |-> name, command |-> command,
                 commands |-> <<command.v>>,
                 descriptions |-> descriptions,
                 description |-> description, cache |-> <<>>]]
  ELSE IF commands.some
       THEN [ok |-> TRUE, err |-> "",
             obj |-> [exists |-> TRUE, name |-> name,
                      command |-> IF commands.v # <<>> THEN Some(commands.v[1])
                                  ELSE None(""),
                      commands |-> commands.v,
                      descriptions |-> descriptions,
                      description |-> description, cache |-> <<>>]]
       ELSE [ok |-> FALSE, err |-> ErrNeither, obj |-> NoAdapter]

CLIMCPServer(name, command, commands, description, descriptions) ==
  IF commands.some
  THEN [ok |-> TRUE, err |-> "",
        obj |-> [exists |-> TRUE, name |-> name,
                 command |-> IF commands.v # <<>> THEN Some(commands.v[1])
                             ELSE None(""),
                 commands |-> commands.v,
                 descriptions |-> descriptions, description |-> description,
                 cache |-> <<>>]]
  ELSE IF command.some
       THEN [ok |-> TRUE, err |-> "",
             obj |-> [exists |-> TRUE, name |-> name, command |-> command,
                      commands |-> <<command.v>>,
                      descriptions |-> descriptions,
                      description |-> description, cache |-> <<>>]]
       ELSE [ok |-> FALSE, err |-> ErrNeither, obj |-> NoAdapter]

\* descriptions and the cache are mappings keyed by command name, kept as
\* sequences of <<key, value>> in insertion order
Has(m, k) == \E i \in 1..Len(m) : m[i][1] = k
Get(m, k) == m[CHOOSE i \in 1..Len(m) : m[i][1] = k][2]

\* CLIMCPServer._get_tool_info: [raised, info, cache, spawned]
\* (variant: the single description is used whatever the number of commands)
get_tool_info_description_always(obj, c, pair) ==
  IF Has(obj.cache, c)
  THEN [raised |-> FALSE, info |-> Get(obj.cache, c), cache |-> obj.cache,
        spawned |-> 0]
  ELSE LET h == get_help_text(pair)
           description ==
             IF Has(obj.descriptions, c) THEN Get(obj.descriptions, c)
             ELSE IF obj.description.some /\ obj.description.v # ""
                  THEN obj.description.v
                  ELSE IF h.text.some
                       THEN extract_description(h.text.v, c)
                       ELSE GenericDescription(c)
           input_schema == IF h.text.some THEN extract_input_schema(h.text.v)
                           ELSE create_basic_input_schema
           tool_info == [name |-> c, description |-> description,
                         inputSchema |-> input_schema]
       IN IF h.raised
          THEN [raised |-> TRUE, info |-> tool_info, cache |-> obj.cache,
                spawned |-> h.spawned]
          ELSE [raised |-> FALSE, info |-> tool_info,
                cache |-> Append(obj.cache, <<c, tool_info>>),
                spawned |-> h.spawned]

\* (variant: a cached descriptor is derived again when -h does not complete)
get_tool_info_rederive(obj, c, pair) ==
  IF Has(obj.cache, c) /\ pair[1].kind = "completed"
  THEN [raised |-> FALSE, info |-> Get(obj.cache, c), cache |-> obj.cache,
        spawned |-> 0]
  ELSE LET h == get_help_text(pair)
           description ==
             IF Has(obj.descriptions, c) THEN Get(obj.descriptions, c)
             ELSE IF obj.description.some /\ obj.description.v # ""
                     /\ Len(obj.commands) = 1
                  THEN obj.description.v
                  ELSE IF h.text.some
                       THEN extract_description(h.text.v, c)
                       ELSE GenericDescription(c)
           input_schema == IF h.text.some THEN extract_input_schema(h.text.v)
                           ELSE create_basic_input_schema
           tool_info == [name |-> c, description |-> description,
                         inputSchema |-> input_schema]
       IN IF h.raised
          THEN [raised |-> TRUE, info |-> tool_info, cache |-> obj.cache,
                spawned |-> h.spawned]
          ELSE [raised |-> FALSE, info |-> tool_info,
                cache |-> Append(obj.cache, <<c, tool_info>>),
                spawned |-> h.spawned]

get_tool_info(obj, c, pair) ==
  IF Has(obj.cache, c)
  THEN [raised |-> FALSE, info |-> Get(obj.cache, c), cache |-> obj.cache,
        spawned |-> 0]
  ELSE LET h == get_help_text(pair)
           description ==
             IF Has(obj.descriptions, c) THEN Get(obj.descriptions, c)
             ELSE IF obj.description.some /\ obj.description.v # ""
                     /\ Len(obj.commands) = 1
                  THEN obj.description.v
                  ELSE IF h.text.some
                       THEN extract_description(h.text.v, c)
                       ELSE GenericDescription(c)
           input_schema == IF h.text.some THEN extract_input_schema(h.text.v)
                           ELSE create_basic_input_schema
           tool_info == [name |-> c, description |-> description,
                         inputSchema |-> input_schema]
       IN IF h.raised
          THEN [raised |-> TRUE, info |-> tool_info, cache |-> obj.cache,
                spawned |-> h.spawned]
          ELSE [raised |-> FALSE, info |-> tool_info,
                cache |-> Append(obj.cache, <<c, tool_info>>),
                spawned |-> h.spawned]

\* CLIMCPServer.get_metadata: the loop over self.commands; an exception of
\* _get_tool_info drops that command
RECURSIVE MetadataLoop(_, _, _, _, _)
MetadataLoop(obj, probe, i, tools, spawned) ==
  IF i > Len(obj.commands)
  THEN [tools |-> tools, cache |-> obj.cache, spawned |-> spawned]
  ELSE LET r == get_tool_info(obj, obj.commands[i], probe[obj.commands[i]])
       IN MetadataLoop([obj EXCEPT !.cache = r.cache], probe, i + 1,
                       IF r.raised THEN tools ELSE Append(tools, r.info),
                       spawned + r.spawned)

cli_get_metadata(obj, probe) ==
  LET r == MetadataLoop(obj, probe, 1, <<>>, 0)
  IN [val |-> [tools |-> r.tools, resources |-> <<>>, server_name |-> obj.name],
      cache |-> r.cache, spawned |-> r.spawned]

(* ------------------- tools/call: running a command --------------------- *)
\* JSON values that arrive as argument values: strings, integers, booleans,
\* null and arrays of them
JStr(s)  == [t |-> "str",  s |-> s,  n |-> 0, b |-> FALSE, items |-> <<>>]
JInt(n)  == [t |-> "int",  s |-> "", n |-> n, b |-> FALSE, items |-> <<>>]
JBool(b) == [t |-> "bool", s |-> "", n |-> 0, b |-> b,     items |-> <<>>]
JNull    == [t |-> "none", s |-> "", n |-> 0, b |-> FALSE, items |-> <<>>]
JList(items) == [t |-> "list", s |-> "", n |-> 0, b |-> FALSE, items |-> items]

\* Python str() of an argument value
Digits == <<"0", "1", "2", "3", "4", "5", "6", "7", "8", "9">>

RECURSIVE str_nat(_)
str_nat(n) ==
  IF n < 10 THEN Digits[n + 1]
  ELSE str_nat(n \div 10) \o Digits[(n % 10) + 1]

str_int(n) == IF n < 0 THEN "-" \o str_nat(0 - n) ELSE str_nat(n)

RECURSIVE str(_), repr(_), ReprItems(_, _)
repr(v) == IF v.t = "str" THEN "'" \o v.s \o "'" ELSE str(v)
ReprItems(items, i) ==
  IF i > Len(items) THEN ""
  ELSE (IF i > 1 THEN ", " ELSE "") \o repr(items[i]) \o ReprItems(items, i + 1)
str(v) ==
  CASE v.t = "str"  -> v.s
    [] v.t = "int"  -> str_int(v.n)
    [] v.t = "bool" -> IF v.b THEN "True" ELSE "False"
    [] v.t = "none" -> "None"
    [] v.t = "list" -> "[" \o ReprItems(v.items, 1) \o "]"

\* Python str.strip() with no argument
IsSpace(ch) == ch \in {" ", "\n", "\t", "\r"}

RECURSIVE lstrip(_)
lstrip(s) ==
  IF Len(s) > 0 /\ IsSpace(SubSeq(s, 1, 1))
  THEN lstrip(SubSeq(s, 2, Len(s))) ELSE s

RECURSIVE rstrip(_)
rstrip(s) ==
  IF Len(s) > 0 /\ IsSpace(SubSeq(s, Len(s), Len(s)))
  THEN rstrip(SubSeq(s, 1, Len(s) - 1)) ELSE s

strip(s) == rstrip(lstrip(s))

\* The arguments member of params: a mapping (entries in insertion order,
\* keys unique) or, when the client sends an array, not a mapping
Args(entries) == [dict |-> TRUE, entries |-> entries]
NotADict      == [dict |-> FALSE, entries |-> <<>>]

\* What subprocess.run(cmd_parts, ..., timeout=30, check=False) does
Ran(out, errText, returncode) ==
  [kind |-> "completed", stdout |-> out, stderr |-> errText,
   returncode |-> returncode, msg |-> ""]
Failed(kind, msg) ==
  [kind |-> kind, stdout |-> "", stderr |-> "", returncode |-> 0, msg |-> msg]
NoRun == Failed("none", "")

\* f"-{key}" if len(key) == 1 else f"--{key}"
Flag(key) == IF Len(key) = 1 THEN "-" \o key ELSE "--" \o key

startswith(s, prefix) ==
  Len(s) >= Len(prefix) /\ SubSeq(s, 1, Len(prefix)) = prefix

\* cmd_parts.extend([flag, str(item)]) for each item of a list value
RECURSIVE ItemTokens(_, _, _)
ItemTokens(key, items, j) ==
  IF j > Len(items) THEN <<>>
  ELSE <<Flag(key), str(items[j])>> \o ItemTokens(key, items, j + 1)

\* [str(arg) for arg in positional_args]
RECURSIVE ItemValues(_, _)
ItemValues(items, j) ==
  IF j > Len(items) THEN <<>>
  ELSE <<str(items[j])>> \o ItemValues(items, j + 1)

\* the loop over arguments.items() of _execute_command
RECURSIVE FlagTokens(_, _)
FlagTokens(entries, i) ==
  IF i > Len(entries) THEN <<>>
  ELSE LET key   == entries[i][1]
           value == entries[i][2]
           here  == IF startswith(key, "_") THEN <<>>
                    ELSE IF value.t = "bool"
                         THEN (IF value.b THEN <<Flag(key)>> ELSE <<>>)
                         ELSE IF value.t = "list"
                              THEN ItemTokens(key, value.items, 1)
                              ELSE <<Flag(key), str(value)>>
       IN here \o FlagTokens(entries, i + 1)

\* the positional arguments passed as '_args'
PositionalTokens(entries) ==
  IF Has(entries, "_args")
  THEN LET positional_args == Get(entries, "_args")
       IN IF positional_args.t = "list"
          THEN ItemValues(positional_args.items, 1)
          ELSE <<str(positional_args)>>
  ELSE <<>>

\* cmd_parts as handed to subprocess.run: the command, the flags, the
\* positional arguments
\* (variant: the positional arguments come before the flags)
cmd_parts_positional_first(command, entries) ==
  <<command>> \o PositionalTokens(entries) \o FlagTokens(entries, 1)

cmd_parts(command, entries) ==
  <<command>> \o FlagTokens(entries, 1) \o PositionalTokens(entries)

\* "\n\n".join(output_parts)
RECURSIVE Join(_, _)
Join(parts, i) ==
  IF i > Len(parts) THEN ""
  ELSE (IF i > 1 THEN "\n\n" ELSE "") \o parts[i] \o Join(parts, i + 1)

\* output_parts of _execute_command from the stripped streams and the
\* exit code, joined
OutputParts(out, errText, returncode) ==
  (IF out # "" THEN <<"STDOUT:\n" \o out>> ELSE <<>>)
  \o (IF errText # "" THEN <<"STDERR:\n" \o errText>> ELSE <<>>)
  \o (IF returncode # 0 THEN <<"Exit code: " \o str_int(returncode)>>
      ELSE <<>>)

Joined(output_parts) ==
  IF output_parts # <<>> THEN Join(output_parts, 1)
  ELSE "Command completed with no output"

\* the text _execute_command returns for a command that ran to completion
\* (variant: a non-zero exit code is not reported)
output_text_no_exit_code(run) ==
  Joined(OutputParts(strip(run.stdout), strip(run.stderr), 0))

output_text(run) ==
  Joined(OutputParts(strip(run.stdout), strip(run.stderr), run.returncode))

ErrTimedOut == "Command timed out after 30 seconds"
ErrNoItems  == "'list' object has no attribute 'items'"

\* the try block of _execute_command: subprocess.run(cmd_parts, ...) and
\* what is made of its outcome
\* (variant: check=True, a non-zero exit raises CalledProcessError)
RunCommand_check(argv, run) ==
  CASE run.kind = "completed" /\ run.returncode = 0 ->
         [raised |-> FALSE, text |-> output_text(run), argv |-> argv,
          spawned |-> 1]
    [] run.kind = "timeout" ->
         [raised |-> TRUE, text |-> ErrTimedOut, argv |-> argv, spawned |-> 1]
    [] OTHER ->
         [raised |-> TRUE, text |-> "Failed to execute command: " \o run.msg,
          argv |-> argv, spawned |-> 1]

RunCommand(argv, run) ==
  CASE run.kind = "completed" ->
         [raised |-> FALSE, text |-> output_text(run), argv |-> argv,
          spawned |-> 1]
    [] run.kind = "timeout" ->
         [raised |-> TRUE, text |-> ErrTimedOut, argv |-> argv, spawned |-> 1]
    [] OTHER ->
         [raised |-> TRUE, text |-> "Failed to execute command: " \o run.msg,
          argv |-> argv, spawned |-> 1]

\* CLIMCPServer._execute_command: [raised, text, argv, spawned]; argv is
\* what subprocess.run was called with (<<>> when it was not called),
\* spawned the number of calls of subprocess.run
execute_command(command, arguments, run) ==
  IF ~arguments.dict
  THEN [raised |-> TRUE, text |-> ErrNoItems, argv |-> <<>>, spawned |-> 0]
  ELSE RunCommand(cmd_parts(command, arguments.entries), run)

(* ------------------------ CLI handle_request --------------------------- *)
\* A JSON-RPC request as the adapter reads it: method, id and params may be
\* absent; params, when present, is an object whose name and arguments may
\* be absent
Params(name, arguments) == [name |-> name, arguments |-> arguments]
NoParams == Params(None(""), None(Args(<<>>)))
Request(method, id, params) == [method |-> method, id |-> id, params |-> params]

\* A response: keys is the set of members present
NoResult == [keys |-> {}, tools |-> <<>>, content |-> <<>>, isError |-> FALSE]
NoError  == [code |-> 0, message |-> ""]
ResultResponse(id, result) ==
  [keys |-> {"jsonrpc", "id", "result"}, jsonrpc |-> "2.0", id |-> id,
   result |-> result, error |-> NoError]
\* (variant: an error response does not carry the id of the request)
ErrorResponse_no_id(id, code, message) ==
  [keys |-> {"jsonrpc", "id", "error"}, jsonrpc |-> "2.0", id |-> None(0),
   result |-> NoResult, error |-> [code |-> code, message |-> message]]

ErrorResponse(id, code, message) ==
  [keys |-> {"jsonrpc", "id", "error"}, jsonrpc |-> "2.0", id |-> id,
   result |-> NoResult, error |-> [code |-> code, message |-> message]]
NoResponse ==
  [keys |-> {}, jsonrpc |-> "", id |-> None(0), result |-> NoResult,
   error |-> NoError]
ToolResult(text, isError) ==
  [keys |-> {"content", "isError"}, tools |-> <<>>,
   content |-> <<[type |-> "text", text |-> text]>>, isError |-> isError]

InCommands(obj, tool_name) ==
  \E i \in 1..Len(obj.commands) : obj.commands[i] = tool_name

\* the try/except of _handle_tool_call around r = _execute_command(...):
\* [raised, resp, cache, argv, spawned]
\* (variant: an exception of _execute_command is not caught)
ToolCallOutcome_uncaught(obj, request_id, tool_name, r) ==
  [raised |-> r.raised,
   resp |-> IF r.raised THEN NoResponse
            ELSE ResultResponse(request_id, ToolResult(r.text, FALSE)),
   cache |-> obj.cache, argv |-> r.argv, spawned |-> r.spawned]

ToolCallOutcome(obj, request_id, tool_name, r) ==
  [raised |-> FALSE,
   resp |-> IF r.raised
            THEN ResultResponse(request_id,
                   ToolResult("Error executing " \o tool_name \o ": "
                                \o r.text, TRUE))
            ELSE ResultResponse(request_id, ToolResult(r.text, FALSE)),
   cache |-> obj.cache, argv |-> r.argv, spawned |-> r.spawned]

\* CLIMCPServer._handle_tool_call
handle_tool_call(obj, request, run) ==
  LET params    == IF request.params.some THEN request.params.v ELSE NoParams
      tool_name == IF params.name.some THEN params.name.v ELSE ""
      arguments == IF params.arguments.some THEN params.arguments.v
                   ELSE Args(<<>>)
  IN IF ~InCommands(obj, tool_name)
     THEN [raised |-> FALSE,
           resp |-> ErrorResponse(request.id, -32602,
                                  "Tool not found: " \o tool_name),
           cache |-> obj.cache, argv |-> <<>>, spawned |-> 0]
     ELSE ToolCallOutcome(obj, request.id, tool_name,
                          execute_command(tool_name, arguments, run))

\* the tools/list branch of handle_request, m = self.get_metadata()
ListOutcome(request_id, m) ==
  [raised |-> FALSE,
   resp |-> ResultResponse(request_id,
              [NoResult EXCEPT !.keys = {"tools"}, !.tools = m.val.tools]),
   cache |-> m.cache, argv |-> <<>>, spawned |-> m.spawned]

\* CLIMCPServer.handle_request: [raised, resp, cache, argv, spawned]
\* (variant: every method but tools/list is taken as a call of a tool)
cli_handle_request_no_dispatch(obj, request, probe, run) ==
  IF request.method = Some("tools/list")
  THEN ListOutcome(request.id, cli_get_metadata(obj, probe))
  ELSE handle_tool_call(obj, request, run)

cli_handle_request(obj, request, probe, run) ==
  IF request.method = Some("tools/list")
  THEN ListOutcome(request.id, cli_get_metadata(obj, probe))
  ELSE IF request.method = Some("tools/call")
       THEN handle_tool_call(obj, request, run)
       ELSE [raised |-> FALSE,
             resp |-> ErrorResponse(request.id, -32601,
                        "Method not found: "
                          \o (IF request.method.some THEN request.method.v
                              ELSE "")),
             cache |-> obj.cache, argv |-> <<>>, spawned |-> 0]

(* ----------------------------- CLI actions ----------------------------- *)
NoCLICall == [op |-> "none", ok |-> TRUE, err |-> "",
              command |-> None(""), commands |-> None(<<>>),
              val |-> [tools |-> <<>>, resources |-> <<>>, server_name |-> ""],
              probe |-> <<>>, spawned |-> 0,
              req |-> Request(None(""), None(0), None(NoParams)),
              raised |-> FALSE, resp |-> NoResponse, run |-> NoRun,
              argv |-> <<>>, transformer |-> ""]

RECURSIVE SeqsUpTo(_, _)
SeqsUpTo(S, n) ==
  IF n = 0 THEN {<<>>}
  ELSE LET shorter == SeqsUpTo(S, n - 1)
       IN shorter \cup {Append(q, x) : q \in shorter, x \in S}

CommandArgs  == {None("")} \cup {Some(c) : c \in Cmds}
CommandsArgs == {None(<<>>)} \cup {Some(q) : q \in SeqsUpTo(Cmds, MaxCommands)}
DescriptionArgs  == {None(""), Some("custom description")}
DescriptionsArgs == {<<>>, <<<<"a", "description of a">>>>}

\* cli = CLIMCPServer("cli", command=..., commands=..., ...)
CLIConstruct(command, commands, description, descriptions) ==
  /\ ~cli.exists
  /\ LET r == CLIMCPServer("cli", command, commands, description, descriptions)
     IN /\ cli' = r.obj
        /\ cli_last' = [NoCLICall EXCEPT !.op = "construct", !.ok = r.ok,
                                         !.err = r.err, !.command = command,
                                         !.commands = commands]
  /\ UNCHANGED <<chainVars, extVars, hostVars>>

\* cli.get_metadata(); probe says how the help runs of each command end
CLIGetMetadata(probe) ==
  /\ cli.exists
  /\ LET r == cli_get_metadata(cli, probe)
     IN /\ cli' = [cli EXCEPT !.cache = r.cache]
        /\ cli_last' = [NoCLICall EXCEPT !.op = "get_metadata", !.val = r.val,
                                         !.probe = probe,
                                         !.spawned = r.spawned]
  /\ UNCHANGED <<chainVars, extVars, hostVars>>

\* what a handle_request that gave r leaves behind
Handled(req, probe, run, r) ==
  /\ cli' = [cli EXCEPT !.cache = r.cache]
  /\ cli_last' = [NoCLICall EXCEPT
                    !.op = "handle_request", !.req = req,
                    !.raised = r.raised, !.resp = r.resp,
                    !.probe = IF req.method = Some("tools/list") THEN probe
                              ELSE <<>>,
                    !.run = IF req.method # Some("tools/list")
                               /\ r.spawned > 0 THEN run
                            ELSE NoRun,
                    !.argv = r.argv, !.spawned = r.spawned]

\* cli.handle_request(req); probe says how the help runs end (consulted by
\* tools/list), run how the command run ends (consulted by tools/call)
CLIHandleRequest(req, probe, run) ==
  /\ cli.exists
  /\ Handled(req, probe, run, cli_handle_request(cli, req, probe, run))
  /\ UNCHANGED <<chainVars, extVars, hostVars>>

(* ------------- a middleware node over the CLI adapter ------------------ *)
MaxText == 40         \* longest description a transformer is given to edit

\* The metadata transformers that edit the tool entries of
\* next_mcp.get_metadata() in place: first_transformer of
\* test_chain_building.py (tool["description"] = "first: " + ...) and
\* add_auth_metadata of design_examples.py (tool["auth_required"] = True)
edit_tool(t, tool) ==
  IF t = "first_transformer"
  THEN [tool EXCEPT !.description = "first: " \o @]
  ELSE [k \in DOMAIN tool \cup {"auth_required"} |->
          IF k = "auth_required" THEN TRUE ELSE tool[k]]

\* d[k] = v on the cache
CachePut(m, k, v) == [i \in 1..Len(m) |-> IF m[i][1] = k THEN <<k, v>> ELSE m[i]]

\* the commands whose descriptor is in the list returned by get_metadata:
\* each item of the list is the dict object held in _tool_metadata_cache
RECURSIVE ToolRefs(_, _, _)
ToolRefs(commands, cache, i) ==
  IF i > Len(commands) THEN <<>>
  ELSE (IF Has(cache, commands[i]) THEN <<commands[i]>> ELSE <<>>)
         \o ToolRefs(commands, cache, i + 1)

\* for tool in metadata.get("tools", []): the edit is made on the object
\* the item refers to
RECURSIVE EditLoop(_, _, _, _)
EditLoop(cache, t, refs, i) ==
  IF i > Len(refs) THEN cache
  ELSE EditLoop(CachePut(cache, refs[i], edit_tool(t, Get(cache, refs[i]))),
                t, refs, i + 1)

\* what the transformer returns: the mapping (or its shallow copy) with the
\* same list of the same dict objects, read after the edits
Edited(r, refs, cache) ==
  [val |-> [r.val EXCEPT !.tools = [i \in 1..Len(refs) |-> Get(cache, refs[i])]],
   cache |-> cache, spawned |-> r.spawned]

\* MiddlewareMCPServer.get_metadata with the CLI adapter as downstream and
\* t as metadata transformer; r is what cli.get_metadata() gave
MiddlewareGetMetadata(obj, t, r) ==
  Edited(r, ToolRefs(obj.commands, r.cache, 1),
         EditLoop(r.cache, t, ToolRefs(obj.commands, r.cache, 1), 1))

\* chain.get_metadata() where chain is the middleware node over cli
CLIChainGetMetadata(t, probe) ==
  /\ cli.exists
  /\ \A i \in 1..Len(cli.cache) : Len(cli.cache[i][2].description) <= MaxText
  /\ LET r == MiddlewareGetMetadata(cli, t, cli_get_metadata(cli, probe))
     IN /\ cli' = [cli EXCEPT !.cache = r.cache]
        /\ cli_last' = [NoCLICall EXCEPT !.op = "chain_get_metadata",
                                         !.val = r.val, !.probe = probe,
                                         !.spawned = r.spawned,
                                         !.transformer = t]
  /\ UNCHANGED <<chainVars, extVars, hostVars>>

(* ===================== External subprocess adapter ===================== *)
MaxChildren == 2      \* child processes spawned in one run
MaxWire     == 3      \* new calls are made below this number of writes and
                      \* reads on the pipes of the child

\* ExternalMCPServer.__init__; process is the index in children of the
\* child self._process stands for, 0 for None
NoExternal == [exists |-> FALSE, name |-> "", command |-> None(""), process |-> 0]
ExternalMCPServer(name, command) ==
  [exists |-> TRUE, name |-> name, command |-> command, process |-> 0]

ErrNoCommand    == "No command specified"
ErrNotConnected == "Not connected"
ErrPopen        == "FileNotFoundError"
ErrBrokenPipe   == "BrokenPipeError"
ErrJSONDecode   == "JSONDecodeError"

\* The line a child answers with: a JSON object with result.tools, a JSON
\* object without it (among them a JSON-RPC error response), a line that is
\* not JSON, or nothing because the child has gone (readline gives "")
Reply(kind, tools) == [kind |-> kind, tools |-> tools]
Replies == {Reply("tools", <<"t1">>), Reply("no_tools", <<>>),
            Reply("error", <<>>),
            Reply("invalid", <<>>), Reply("eof", <<>>)}
NoReply == Reply("none", <<>>)

\* The requests the adapter writes
Sent(method, id) == [method |-> method, id |-> id]
InitRequest  == Sent("initialize", Some(1))
ToolsRequest == Sent("tools/list", Some(2))

\* What a step of a call leaves: the adapter, the children, the requests
\* written during the call, the number of children spawned during the call,
\* the writes and reads made on the pipes during the call (pipe), the calls
\* made on the process handle by disconnect; line is the kind of the last
\* line read during the call
NoMetadata == [tools |-> <<>>, server_name |-> ""]
Outcome(raised, err, obj, ch, sent, spawned, val) ==
  [raised |-> raised, err |-> err, obj |-> obj, children |-> ch,
   sent |-> sent, spawned |-> spawned, val |-> val, metadata |-> NoMetadata,
   pipe |-> <<>>, line |-> "none", calls |-> <<>>, in_time |-> TRUE]

\* stdin.write(json.dumps(request) + "\n") and stdout.readline()
Write(request) == [io |-> "write", msg |-> request]
Read(reply)    == [io |-> "read", msg |-> Sent("", None(0))]

\* ExternalMCPServer._send_request, then ExternalMCPServer._read_response,
\* made after the part c of the call: a write to a child that has ended
\* raises, a line that is not JSON (or no line at all) makes json.loads raise
Exchange(c, request, reply) ==
  IF c.obj.process = 0
  THEN [c EXCEPT !.raised = TRUE, !.err = ErrNotConnected, !.val = NoReply]
  ELSE IF c.children[c.obj.process] # "running"
       THEN [c EXCEPT !.raised = TRUE, !.err = ErrBrokenPipe, !.val = NoReply]
       ELSE IF reply.kind = "eof"
            THEN [c EXCEPT !.raised = TRUE, !.err = ErrJSONDecode,
                           !.children[c.obj.process] = "exited",
                           !.sent = Append(@, request),
                           !.pipe = @ \o <<Write(request), Read(reply)>>,
                           !.line = reply.kind, !.val = NoReply]
            ELSE IF reply.kind = "invalid"
                 THEN [c EXCEPT !.raised = TRUE, !.err = ErrJSONDecode,
                                !.sent = Append(@, request),
                                !.pipe = @ \o <<Write(request), Read(reply)>>,
                                !.line = reply.kind, !.val = NoReply]
                 ELSE [c EXCEPT !.sent = Append(@, request),
                                !.pipe = @ \o <<Write(request), Read(reply)>>,
                                !.line = reply.kind, !.val = reply]

\* ExternalMCPServer.connect: the handle is assigned before the handshake
ext_connect(obj, ch, popen_ok, reply) ==
  IF ~obj.command.some
  THEN Outcome(TRUE, ErrNoCommand, obj, ch, <<>>, 0, NoReply)
  ELSE IF ~popen_ok
       THEN Outcome(TRUE, ErrPopen, obj, ch, <<>>, 0, NoReply)
       ELSE Exchange(Outcome(FALSE, "", [obj EXCEPT !.process = Len(ch) + 1],
                             Append(ch, "running"), <<>>, 1, NoReply),
                     InitRequest, reply)

\* if not self._process: self.connect()
\* (variant: the handshake is made again on the process there is)
Connected_rehandshake(obj, ch, popen_ok, init_reply) ==
  IF obj.process = 0 THEN ext_connect(obj, ch, popen_ok, init_reply)
  ELSE Exchange(Outcome(FALSE, "", obj, ch, <<>>, 0, NoReply),
                InitRequest, init_reply)

\* (variant: connect is called whether or not there is a process)
Connected_always(obj, ch, popen_ok, init_reply) ==
  ext_connect(obj, ch, popen_ok, init_reply)

Connected(obj, ch, popen_ok, init_reply) ==
  IF obj.process = 0 THEN ext_connect(obj, ch, popen_ok, init_reply)
  ELSE Outcome(FALSE, "", obj, ch, <<>>, 0, NoReply)

\* ExternalMCPServer.get_metadata: the answer to tools/list becomes the
\* mapping [tools, server_name]
ext_get_metadata(obj, ch, popen_ok, init_reply, reply) ==
  LET c == Connected(obj, ch, popen_ok, init_reply)
      x == Exchange(c, ToolsRequest, reply)
  IN IF c.raised THEN c
     ELSE IF x.raised THEN x
          ELSE [x EXCEPT !.val = NoReply,
                         !.metadata =
                           [tools |-> IF x.val.kind = "tools" THEN x.val.tools
                                      ELSE <<>>,
                            server_name |-> obj.name]]

\* ExternalMCPServer.handle_request: the request is written as it is and
\* the answer returned as it is
ext_handle_request(obj, ch, request, popen_ok, init_reply, reply) ==
  LET c == Connected(obj, ch, popen_ok, init_reply)
  IN IF c.raised THEN c
     ELSE Exchange(c, request, reply)

\* ExternalMCPServer.disconnect: terminate, wait 5 seconds, kill and wait
\* when the child has not ended by then; the handle is cleared in all cases.
\* in_time says that a running child ends within the 5 seconds; the wait on
\* a child that has ended returns at once.
\* (variant: the handle is kept)
ext_disconnect_keep_handle(obj, ch, in_time) ==
  IF obj.process # 0
  THEN [Outcome(FALSE, "", obj,
                [ch EXCEPT ![obj.process] = "exited"], <<>>, 0, NoReply)
          EXCEPT !.calls = <<"terminate", "wait">>, !.in_time = in_time]
  ELSE Outcome(FALSE, "", obj, ch, <<>>, 0, NoReply)

ext_disconnect(obj, ch, in_time) ==
  IF obj.process # 0
  THEN [Outcome(FALSE, "", [obj EXCEPT !.process = 0],
                [ch EXCEPT ![obj.process] = "exited"], <<>>, 0, NoReply)
          EXCEPT !.calls = IF ch[obj.process] = "running" /\ ~in_time
                           THEN <<"terminate", "wait", "kill", "wait">>
                           ELSE <<"terminate", "wait">>,
                 !.in_time = in_time]
  ELSE Outcome(FALSE, "", obj, ch, <<>>, 0, NoReply)

(* -------------------------- External actions --------------------------- *)
\* the last call on the adapter: before is self._process when it began,
\* alive says that this process was running then, first says that it is the
\* first call after the construction
NoExtCall == [op |-> "none", raised |-> FALSE, err |-> "", before |-> 0,
              first |-> FALSE, popen_ok |-> FALSE, sent |-> <<>>,
              spawned |-> 0, val |-> NoReply, metadata |-> NoMetadata,
              line |-> "none", alive |-> FALSE, calls |-> <<>>,
              in_time |-> TRUE]

\* wire[p] is what has been written to and read from the pipes of child p,
\* in this order
Called(op, r, popen_ok) ==
  /\ ext' = r.obj
  /\ children' = r.children
  /\ wire' = IF r.spawned = 1 THEN Append(wire, r.pipe)
             ELSE IF r.pipe # <<>>
                  THEN [wire EXCEPT ![r.obj.process] = @ \o r.pipe]
                  ELSE wire
  /\ ext_last' = [op |-> op, raised |-> r.raised, err |-> r.err,
                  before |-> ext.process,
                  first |-> (ext_last.op = "construct"),
                  popen_ok |-> popen_ok, sent |-> r.sent,
                  spawned |-> r.spawned, val |-> r.val,
                  metadata |-> r.metadata, line |-> r.line,
                  alive |-> IF ext.process = 0 THEN FALSE
                            ELSE children[ext.process] = "running",
                  calls |-> r.calls,
                  in_time |-> r.in_time]
  /\ UNCHANGED <<chainVars, cliVars, hostVars, pipeVars>>

\* ext = ExternalMCPServer("ext", command)
ExtConstruct(command) ==
  /\ ~ext.exists
  /\ ext' = ExternalMCPServer("ext", command)
  /\ ext_last' = [NoExtCall EXCEPT !.op = "construct"]
  /\ UNCHANGED <<children, wire, chainVars, cliVars, hostVars, pipeVars>>

\* ext.connect(); popen_ok says whether the process can be started
ExtConnect(popen_ok, reply) ==
  /\ ext.exists
  /\ Len(children) < MaxChildren
  /\ Called("connect", ext_connect(ext, children, popen_ok, reply), popen_ok)

\* ext.get_metadata()
ExtGetMetadata(popen_ok, init_reply, reply) ==
  /\ ext.exists
  /\ ext.process = 0 => Len(children) < MaxChildren
  /\ ext.process # 0 => Len(wire[ext.process]) < MaxWire
  /\ Called("get_metadata",
            ext_get_metadata(ext, children, popen_ok, init_reply, reply),
            popen_ok)

\* ext.handle_request(request)
ExtHandleRequest(request, popen_ok, init_reply, reply) ==
  /\ ext.exists
  /\ ext.process = 0 => Len(children) < MaxChildren
  /\ ext.process # 0 => Len(wire[ext.process]) < MaxWire
  /\ Called("handle_request",
            ext_handle_request(ext, children, request, popen_ok, init_reply,
                               reply),
            popen_ok)

\* ext.disconnect()
ExtDisconnect(in_time) ==
  /\ ext.exists
  /\ Called("disconnect", ext_disconnect(ext, children, in_time), FALSE)

\* a child process ends by itself
ChildExits(p) ==
  /\ p \in 1..Len(children)
  /\ children[p] = "running"
  /\ children' = [children EXCEPT ![p] = "exited"]
  /\ UNCHANGED <<ext, wire, ext_last, chainVars, cliVars, hostVars, pipeVars>>

(* ------------- External adapter: calls as steps on the pipes ----------- *)
\* get_metadata and handle_request taken step by step, with the child as a
\* process of its own, for two callers of one adapter.
MaxKids      == 2     \* children spawned
MaxPipeCalls == 2     \* calls begun on the adapter
MaxExtra     == 1     \* lines a child emits that answer no message

Callers == {1, 2}

\* A message on a child's standard input: the no-th written to it, by
\* caller by; a line on its standard output: the pos-th it has emitted,
\* answering its answers-th message (0: a line that answers none)
Message(no, by, req) == [no |-> no, by |-> by, req |-> req]
OutLine(pos, answers, by) == [pos |-> pos, answers |-> answers, by |-> by]
NoLine == OutLine(0, 0, 0)

\* A child: the pipes, the messages written to it so far (log), the number
\* of lines it has emitted and of lines read from it
NewKid ==
  [state |-> "running", stdin |-> <<>>, stdout |-> <<>>, log |-> <<>>,
   emitted |-> 0, reads |-> 0, extra |-> 0]

\* A caller: where it is in its call, the call, and what the call did; on
\* is the child whose output it reads, child and wrote the child and the
\* number of the message that carries its own request, lag the number of
\* unsolicited lines that child had emitted by then
Idle ==
  [pc |-> "idle", op |-> "none", req |-> Sent("", None(0)), on |-> 0,
   child |-> 0, wrote |-> 0, lag |-> 0, got |-> NoLine, returned |-> FALSE,
   raised |-> FALSE, exc |-> "", nwrites |-> 0, nreads |-> 0,
   spawned |-> FALSE]

\* json.dumps(request) + "\n" as the child receives it
\* (variant: the request goes out with another id)
pipe_message_renumbered(no, by, request) ==
  Message(no, by, [request EXCEPT !.id = Some(no)])

pipe_message(no, by, request) == Message(no, by, request)

\* self._process.stdin.write(...): the message is appended to the pipe
written(kid, by, request) ==
  [kid EXCEPT !.stdin = Append(@, pipe_message(Len(kid.log) + 1, by, request)),
              !.log = Append(@, pipe_message(Len(kid.log) + 1, by, request))]

\* self._process.stdout.readline() returns: a line is there, or the child
\* has gone and the read gives ""; otherwise the read blocks
\* (variant: the read gives up when there is nothing to read)
readline_returns_timeout(kid) == TRUE

readline_returns(kid) == kid.stdout # <<>> \/ kid.state = "exited"

\* the line readline takes for caller t whose request is message want:
\* the oldest line of the pipe, whatever it answers
\* (variant: the line that answers the caller's message, when it is there)
readline_correlated(kid, want) ==
  IF \E i \in 1..Len(kid.stdout) : kid.stdout[i].answers = want
  THEN CHOOSE i \in 1..Len(kid.stdout) : kid.stdout[i].answers = want
  ELSE 1

readline(kid, want) == 1

\* the pipe without its i-th line
Without(q, i) == SubSeq(q, 1, i - 1) \o SubSeq(q, i + 1, Len(q))

\* nothing in handle_request or get_metadata keeps a second caller from
\* beginning a call while one is in flight
\* (variant: calls take a lock)
may_begin_locked(th, t) == \A u \in Callers \ {t} : th[u].pc = "idle"

may_begin(th, t) == TRUE

\* the call of caller t ends with an exception
PipeRaise(t, exc) ==
  thr' = [thr EXCEPT ![t].pc = "idle", ![t].raised = TRUE, ![t].exc = exc]

\* caller t begins get_metadata() or handle_request(req) with its first
\* statement, if not self._process
PipeCall(t, op, req) ==
  /\ thr[t].pc = "idle"
  /\ may_begin(thr, t)
  /\ phist.calls < MaxPipeCalls
  /\ thr' = [thr EXCEPT ![t] = [Idle EXCEPT
                                  !.pc = IF pproc = 0 THEN "spawn" ELSE "send",
                                  !.op = op, !.req = req]]
  /\ phist' = [calls |-> phist.calls + 1,
               overlapped |-> phist.overlapped
                                \/ \E u \in Callers \ {t} : thr[u].pc # "idle"]
  /\ UNCHANGED <<pproc, kids>>

\* self._process = subprocess.Popen(...)
PipeSpawn(t) ==
  /\ thr[t].pc = "spawn"
  /\ Len(kids) < MaxKids
  /\ kids' = Append(kids, NewKid)
  /\ pproc' = Len(kids) + 1
  /\ thr' = [thr EXCEPT ![t].pc = "init_send", ![t].spawned = TRUE]
  /\ UNCHANGED phist

\* _send_request: of the handshake (init_send) or of the call's own
\* request (send)
PipeSend(t) ==
  /\ thr[t].pc \in {"init_send", "send"}
  /\ IF pproc = 0
     THEN /\ PipeRaise(t, ErrNotConnected)
          /\ UNCHANGED kids
     ELSE IF kids[pproc].state # "running"
          THEN /\ PipeRaise(t, ErrBrokenPipe)
               /\ UNCHANGED kids
          ELSE /\ kids' = [kids EXCEPT ![pproc] =
                             written(@, t, IF thr[t].pc = "init_send"
                                           THEN InitRequest ELSE thr[t].req)]
               /\ thr' = [thr EXCEPT
                            ![t].pc = IF thr[t].pc = "init_send"
                                      THEN "init_recv" ELSE "recv",
                            ![t].nwrites = @ + 1,
                            ![t].child = IF thr[t].pc = "send" THEN pproc
                                         ELSE @,
                            ![t].wrote = IF thr[t].pc = "send"
                                         THEN Len(kids[pproc].log) + 1 ELSE @,
                            ![t].lag = IF thr[t].pc = "send"
                                       THEN kids[pproc].extra ELSE @]
  /\ UNCHANGED <<pproc, phist>>

\* _read_response up to the call of readline: the pipe of the process the
\* adapter holds now
PipeRecv(t) ==
  /\ thr[t].pc \in {"init_recv", "recv"}
  /\ IF pproc = 0
     THEN PipeRaise(t, ErrNotConnected)
     ELSE thr' = [thr EXCEPT ![t].pc = IF thr[t].pc = "init_recv"
                                       THEN "init_wait" ELSE "wait",
                             ![t].on = pproc]
  /\ UNCHANGED <<pproc, kids, phist>>

\* readline returns and json.loads parses the line; the line of the
\* handshake is dropped, the line of the call is what the call returns
PipeWait(t) ==
  /\ thr[t].pc \in {"init_wait", "wait"}
  /\ readline_returns(kids[thr[t].on])
  /\ IF kids[thr[t].on].stdout = <<>>
     THEN /\ PipeRaise(t, ErrJSONDecode)
          /\ UNCHANGED kids
     ELSE /\ kids' = [kids EXCEPT
                        ![thr[t].on].stdout =
                           Without(@, readline(kids[thr[t].on], thr[t].wrote)),
                        ![thr[t].on].reads = @ + 1]
          /\ thr' = [thr EXCEPT
                       ![t].nreads = @ + 1,
                       ![t].pc = IF thr[t].pc = "init_wait" THEN "send"
                                 ELSE "idle",
                       ![t].returned = (thr[t].pc = "wait"),
                       ![t].got =
                          IF thr[t].pc = "wait"
                          THEN kids[thr[t].on].stdout[
                                 readline(kids[thr[t].on], thr[t].wrote)]
                          ELSE @]
  /\ UNCHANGED <<pproc, phist>>

\* disconnect() by the owner of the adapter: the child is ended and the
\* handle cleared, whatever the callers are doing
PipeDisconnect ==
  /\ pproc # 0
  /\ kids' = [kids EXCEPT ![pproc].state = "exited"]
  /\ pproc' = 0
  /\ phist' = [phist EXCEPT !.overlapped =
                              @ \/ \E u \in Callers : thr[u].pc # "idle"]
  /\ UNCHANGED thr

\* child p takes the oldest message from its input and emits the line that
\* answers it
KidAnswers(p) ==
  /\ p \in 1..Len(kids)
  /\ kids[p].state = "running"
  /\ kids[p].stdin # <<>>
  /\ kids' = [kids EXCEPT
                ![p].stdin = Tail(@),
                ![p].emitted = @ + 1,
                ![p].stdout = Append(@, OutLine(kids[p].emitted + 1,
                                                Head(kids[p].stdin).no,
                                                Head(kids[p].stdin).by))]
  /\ UNCHANGED <<pproc, thr, phist>>

\* child p emits a line that answers no message (a notification, a log
\* line)
KidEmitsExtra(p) ==
  /\ p \in 1..Len(kids)
  /\ kids[p].state = "running"
  /\ kids[p].extra < MaxExtra
  /\ kids' = [kids EXCEPT
                ![p].emitted = @ + 1,
                ![p].extra = @ + 1,
                ![p].stdout = Append(@, OutLine(kids[p].emitted + 1, 0, 0))]
  /\ UNCHANGED <<pproc, thr, phist>>

\* child p ends by itself
KidExits(p) ==
  /\ p \in 1..Len(kids)
  /\ kids[p].state = "running"
  /\ kids' = [kids EXCEPT ![p].state = "exited"]
  /\ UNCHANGED <<pproc, thr, phist>>

PipeInit ==
  /\ pproc = 0
  /\ kids = <<>>
  /\ thr = [t \in Callers |-> Idle]
  /\ phist = [calls |-> 0, overlapped |-> FALSE]

(* ------------------------- Protocol engine bridge ---------------------- *)
MaxEntries == 3       \* entries of the tools and resources lists together

\* The value of data.get("name") / data.get("uri"): None when the key is
\* missing, a string, or a number
Absent  == [t |-> "none", s |-> "", n |-> 0]
KStr(s) == [t |-> "str", s |-> s, n |-> 0]
KNum(n) == [t |-> "num", s |-> "", n |-> n]
\* if not tool_name: None, "" and 0 are false
Truthy(key) == (key.t = "str" /\ key.s # "") \/ (key.t = "num" /\ key.n # 0)
\* "%s" % key
KeyText(key) ==
  IF key.t = "str" THEN key.s ELSE IF key.t = "num" THEN str_int(key.n)
  ELSE "None"

\* An entry of metadata["tools"] or metadata["resources"]: a dict with its
\* key and description, or a value of another type
Entry(key, description) ==
  [dict |-> TRUE, type |-> "<class 'dict'>", key |-> key,
   description |-> description]
NotAMapping(type) ==
  [dict |-> FALSE, type |-> type, key |-> Absent, description |-> None("")]

\* What the downstream does when called: returns a value or raises
Returns(v) == [raises |-> FALSE, v |-> v, exc |-> ""]
Raises(exc) == [raises |-> TRUE, v |-> <<>>, exc |-> exc]

\* logger.error / logger.warning / logger.info
Log(level, msg) == [level |-> level, msg |-> msg]

\* tool_function of _register_tool and resource_handler of
\* _register_resource: closures over tool_name / resource_uri
tool_function(tool_name, tool_description) ==
  [kind |-> "tool", name |-> tool_name, doc |-> tool_description,
   captured |-> tool_name]
resource_handler(resource_uri) ==
  [kind |-> "resource", name |-> resource_uri, doc |-> "",
   captured |-> resource_uri]

\* FastMCP(name): the engine with what has been registered in it
FastMCP(name) == [name |-> name, tools |-> <<>>, resources |-> <<>>]

\* FastMCPServer while it is constructed and after: the engine (made tells
\* whether it has been constructed), _registered_tools, and what the
\* construction did: the log, the number of get_metadata calls, the
\* exception raised
NoBridge ==
  [exists |-> FALSE, made |-> FALSE, fastmcp |-> FastMCP(""),
   registered_tools |-> <<>>, registered_tool_names |-> {},
   registered_resource_uris |-> {}, log |-> <<>>, gm_calls |-> 0,
   raised |-> FALSE, exc |-> "", cause |-> ""]

Logged(b, level, msg) == [b EXCEPT !.log = Append(@, Log(level, msg))]
Failing(b, exc) == [b EXCEPT !.raised = TRUE, !.exc = exc]

\* FastMCPServer._register_tool: setting __name__ to a value that is not a
\* string raises TypeError
register_tool(tool_data, b) ==
  LET tool_name == KeyText(tool_data.key)
      tool_description ==
        IF tool_data.description.some THEN tool_data.description.v
        ELSE "Execute " \o tool_name \o " tool"
      fn == tool_function(tool_name, tool_description)
  IN IF tool_data.key.t # "str" THEN Failing(b, "TypeError")
     ELSE Logged([b EXCEPT !.fastmcp.tools = Append(@, fn),
                           !.registered_tools = Append(@, <<tool_name, fn>>)],
                 "info",
                 "Successfully registered tool '" \o tool_name
                   \o "' with description: " \o tool_description)

\* FastMCPServer._register_resource: the handler is registered by the
\* decorator, then resource_uri.replace raises AttributeError when the uri
\* is not a string
register_resource(resource_data, b) ==
  LET fn == resource_handler(KeyText(resource_data.key))
      registered == [b EXCEPT !.fastmcp.resources = Append(@, fn)]
  IN IF resource_data.key.t # "str" THEN Failing(registered, "AttributeError")
     ELSE registered

\* one turn of the loop over tools (fastmcp.py:58-73)
ToolStep(tool_data, b) ==
  IF ~tool_data.dict
  THEN Logged(b, "error",
              "Malformed tool metadata: expected dict, got " \o tool_data.type)
  ELSE IF ~Truthy(tool_data.key)
       THEN Logged(b, "error", "Malformed tool metadata: missing 'name' field")
       ELSE IF tool_data.key \in b.registered_tool_names
            THEN Logged(b, "warning",
                        "Duplicate tool name '" \o KeyText(tool_data.key)
                          \o "' found, skipping registration")
            ELSE register_tool(tool_data,
                               [b EXCEPT !.registered_tool_names =
                                           @ \cup {tool_data.key}])

\* one turn of the loop over resources (fastmcp.py:76-91)
ResourceStep(resource_data, b) ==
  IF ~resource_data.dict
  THEN Logged(b, "error",
              "Malformed resource metadata: expected dict, got "
                \o resource_data.type)
  ELSE IF ~Truthy(resource_data.key)
       THEN Logged(b, "error",
                   "Malformed resource metadata: missing 'uri' field")
       ELSE IF resource_data.key \in b.registered_resource_uris
            THEN Logged(b, "warning",
                        "Duplicate resource URI '"
                          \o KeyText(resource_data.key)
                          \o "' found, skipping registration")
            ELSE register_resource(resource_data,
                                   [b EXCEPT !.registered_resource_uris =
                                               @ \cup {resource_data.key}])

RECURSIVE ToolLoop(_, _, _)
ToolLoop(tools, i, b) ==
  IF i > Len(tools) \/ b.raised THEN b
  ELSE ToolLoop(tools, i + 1, ToolStep(tools[i], b))

RECURSIVE ResourceLoop(_, _, _)
ResourceLoop(resources, i, b) ==
  IF i > Len(resources) \/ b.raised THEN b
  ELSE ResourceLoop(resources, i + 1, ResourceStep(resources[i], b))

\* metadata as the downstream returns it: the lists under "tools" and
\* "resources", each of which may be missing
Metadata(tools, resources) == [tools |-> tools, resources |-> resources]
\* metadata.get(key, [])
GetList(opt) == IF opt.some THEN opt.v ELSE <<>>

\* FastMCPServer._register_tools_and_resources
register_tools_and_resources(metadata, b) ==
  ResourceLoop(GetList(metadata.resources), 1,
    ToolLoop(GetList(metadata.tools), 1,
      IF GetList(metadata.tools) = <<>>
      THEN IF GetList(metadata.resources) = <<>>
           THEN Logged(Logged(b, "info", "No tools found in metadata"),
                       "info", "No resources found in metadata")
           ELSE Logged(b, "info", "No tools found in metadata")
      ELSE IF GetList(metadata.resources) = <<>>
           THEN Logged(b, "info", "No resources found in metadata")
           ELSE b))

\* the object is there when __init__ has not raised
Constructed(b) == [b EXCEPT !.exists = ~b.raised]

\* FastMCPServer.__init__: got is what downstream.get_metadata() does,
\* engine_ok whether FastMCP(name) can be constructed. A construction that
\* raises leaves no FastMCPServer (exists is FALSE); what it did before is
\* kept in the record.
\* (variant: the engine is constructed before the metadata is retrieved)
FastMCPServer_engine_first(got, engine_ok, name) ==
  IF ~engine_ok
  THEN [Logged(NoBridge, "error",
               "Failed to initialize FastMCP: engine error")
          EXCEPT !.raised = TRUE, !.exc = "engine error"]
  ELSE IF got.raises
       THEN [Logged(NoBridge, "error",
                    "Failed to retrieve metadata from downstream server: "
                      \o got.exc)
               EXCEPT !.made = TRUE, !.fastmcp = FastMCP(name),
                      !.gm_calls = 1, !.raised = TRUE,
                      !.exc = "RuntimeError: Metadata retrieval failed",
                      !.cause = got.exc]
       ELSE Constructed(register_tools_and_resources(
              got.v,
              [NoBridge EXCEPT !.made = TRUE, !.fastmcp = FastMCP(name),
                               !.gm_calls = 1]))

FastMCPServer(got, engine_ok, name) ==
  IF got.raises
  THEN [Logged(NoBridge, "error",
               "Failed to retrieve metadata from downstream server: "
                 \o got.exc)
          EXCEPT !.gm_calls = 1, !.raised = TRUE,
                 !.exc = "RuntimeError: Metadata retrieval failed",
                 !.cause = got.exc]
  ELSE IF ~engine_ok
       THEN [Logged(NoBridge, "error",
                    "Failed to initialize FastMCP: engine error")
               EXCEPT !.gm_calls = 1, !.raised = TRUE, !.exc = "engine error"]
       ELSE Constructed(register_tools_and_resources(
              got.v,
              [NoBridge EXCEPT !.made = TRUE, !.fastmcp = FastMCP(name),
                               !.gm_calls = 1]))

\* What a call of a registered handler leaves: the requests given to
\* downstream.handle_request, the value returned or the exception raised,
\* the log; calls names the methods of the downstream called, in order
Handling(requests, does, log) ==
  [requests |-> requests, raised |-> does.raises, exc |-> does.exc,
   ret |-> does.v, log |-> log,
   calls |-> [k \in 1..Len(requests) |-> "handle_request"]]

\* the request of tool_function: arguments None becomes {}
ToolRequest(tool_name, arguments) ==
  [method |-> "tools/call", id |-> 1,
   params |-> [name |-> tool_name,
               arguments |-> IF arguments.some THEN arguments.v
                             ELSE Args(<<>>)]]
ResourceRequest(resource_uri) ==
  [method |-> "resources/read", id |-> 1, params |-> [uri |-> resource_uri]]

\* tool_function(arguments): does is what downstream.handle_request does
\* (variant: an exception of the downstream becomes a returned value)
call_tool_function_swallow(fn, arguments, does) ==
  Handling(<<ToolRequest(fn.captured, arguments)>>,
           IF does.raises THEN Returns(<<>>) ELSE does,
           IF does.raises
           THEN <<Log("error", "Error executing tool '" \o fn.captured
                                 \o "': " \o does.exc)>>
           ELSE <<>>)

call_tool_function(fn, arguments, does) ==
  Handling(<<ToolRequest(fn.captured, arguments)>>, does,
           IF does.raises
           THEN <<Log("error", "Error executing tool '" \o fn.captured
                                 \o "': " \o does.exc)>>
           ELSE <<>>)

\* resource_handler()
\* (variant: the handler reads the metadata again before it forwards)
call_resource_handler_reread(fn, does) ==
  [Handling(<<ResourceRequest(fn.captured)>>, does,
            IF does.raises
            THEN <<Log("error", "Error reading resource '" \o fn.captured
                                  \o "': " \o does.exc)>>
            ELSE <<>>)
     EXCEPT !.calls = <<"get_metadata", "handle_request">>]

call_resource_handler(fn, does) ==
  Handling(<<ResourceRequest(fn.captured)>>, does,
           IF does.raises
           THEN <<Log("error", "Error reading resource '" \o fn.captured
                                 \o "': " \o does.exc)>>
           ELSE <<>>)

\* FastMCPServer.run(**kwargs): the keyword arguments given to
\* FastMCP.run; the downstream is not called
run_kwargs(kwargs) == kwargs \ {"name"}
bridge_run(kwargs, does) == Handling(<<>>, does, <<>>)

(* --------------------------- Bridge actions ---------------------------- *)
\* the last call on the bridge
NoBridgeCall ==
  [op |-> "none", got |-> Returns(<<>>), engine_ok |-> FALSE, handler |-> 0,
   arguments |-> None(Args(<<>>)), does |-> Returns(<<>>), kwargs |-> {},
   r |-> Handling(<<>>, Returns(<<>>), <<>>)]

\* bridge = FastMCPServer(downstream)
BridgeConstruct(got, engine_ok) ==
  /\ br_last.op = "none"
  /\ bridge' = FastMCPServer(got, engine_ok, "mcp-chain")
  /\ br_last' = [NoBridgeCall EXCEPT !.op = "construct", !.got = got,
                                     !.engine_ok = engine_ok]
  /\ UNCHANGED <<chainVars, cliVars, extVars, launch_last, front_last>>

\* the engine calls the i-th registered tool function
BridgeCallTool(i, arguments, does) ==
  /\ bridge.exists
  /\ i \in 1..Len(bridge.fastmcp.tools)
  /\ br_last' = [NoBridgeCall EXCEPT
                   !.op = "tool", !.handler = i, !.arguments = arguments,
                   !.does = does,
                   !.r = call_tool_function(bridge.fastmcp.tools[i],
                                            arguments, does)]
  /\ UNCHANGED <<bridge, chainVars, cliVars, extVars, launch_last, front_last>>

\* the engine calls the i-th registered resource handler
BridgeReadResource(i, does) ==
  /\ bridge.exists
  /\ i \in 1..Len(bridge.fastmcp.resources)
  /\ br_last' = [NoBridgeCall EXCEPT
                   !.op = "resource", !.handler = i, !.does = does,
                   !.r = call_resource_handler(bridge.fastmcp.resources[i],
                                               does)]
  /\ UNCHANGED <<bridge, chainVars, cliVars, extVars, launch_last, front_last>>

\* bridge.run(**kwargs): does is what FastMCP.run does; kwargs records what
\* it was given
BridgeRun(kwargs, does) ==
  /\ bridge.exists
  /\ br_last' = [NoBridgeCall EXCEPT
                   !.op = "run", !.does = does,
                   !.kwargs = run_kwargs(kwargs),
                   !.r = bridge_run(kwargs, does)]
  /\ UNCHANGED <<bridge, chainVars, cliVars, extVars, launch_last, front_last>>

(* ---------------------- serve and the launcher ------------------------- *)
\* A Python object as hasattr, callable and isinstance see it: get_metadata
\* and handle_request are "missing", "data" (there, not callable) or
\* "callable"; builder says that it is an MCPChainBuilder; class says that
\* the object is a class, whose methods are plain functions
PyObj(gm, hr, builder) ==
  [present |-> TRUE, gm |-> gm, hr |-> hr, builder |-> builder,
   class |-> FALSE]
PyClass(gm, hr) ==
  [present |-> TRUE, gm |-> gm, hr |-> hr, builder |-> FALSE, class |-> TRUE]
NoAttribute ==
  [present |-> FALSE, gm |-> "missing", hr |-> "missing", builder |-> FALSE,
   class |-> FALSE]

\* What a call of serve or main leaves: the steps taken in their order,
\* the exception raised (cause is the exception it was raised from), the
\* status given to sys.exit, the attribute chosen
Launched(steps, raised, exc, exit, chosen) ==
  [steps |-> steps, raised |-> raised, exc |-> exc, cause |-> "",
   exit |-> exit, chosen |-> chosen]

ErrProtocol ==
  "TypeError: Chain must implement DictMCPServer protocol (get_metadata and handle_request methods)"
ErrNotCallable == "TypeError: object is not callable"
ErrRun == "RuntimeError: run failed"
ErrNoSelf ==
  "TypeError: get_metadata() missing 1 required positional argument: 'self'"

\* self._downstream.get_metadata() on the chain: an attribute that is not
\* callable makes the call raise TypeError, and so does the function of a
\* class called without an instance; MCPChainBuilder.get_metadata raises
\* ValueError; got is what any other chain does
\* (variant: a builder answers as a chain with a terminal does)
CallGetMetadata_answering(obj, got) ==
  IF obj.gm # "callable" THEN Raises(ErrNotCallable)
  ELSE IF obj.class THEN Raises(ErrNoSelf)
       ELSE got

CallGetMetadata(obj, got) ==
  IF obj.gm # "callable" THEN Raises(ErrNotCallable)
  ELSE IF obj.class THEN Raises(ErrNoSelf)
       ELSE IF obj.builder THEN Raises("ValueError: " \o ErrNoDownstream)
            ELSE got

\* the steps of FastMCPServer(chain, name=name) as serve sees them
BridgeSteps(b) ==
  <<"FastMCPServer">>
    \o (IF b.gm_calls = 1 THEN <<"get_metadata">> ELSE <<>>)
    \o (IF b.made THEN <<"FastMCP">> ELSE <<>>)

\* serve(chain): b is the FastMCPServer constructed for the chain, run_ok
\* says whether server.run returns
\* (variant: the bridge is constructed before the chain is validated)
Served_unvalidated(obj, b, run_ok) ==
  IF b.raised
  THEN Launched(BridgeSteps(b), TRUE, b.exc, None(0), 0)
  ELSE IF ~run_ok
       THEN Launched(BridgeSteps(b) \o <<"run">>, TRUE, ErrRun, None(0), 0)
       ELSE Launched(BridgeSteps(b) \o <<"run">>, FALSE, "", None(0), 0)

Served(obj, b, run_ok) ==
  IF obj.gm = "missing" \/ obj.hr = "missing"
  THEN Launched(<<>>, TRUE, ErrProtocol, None(0), 0)
  ELSE IF b.raised
       THEN [Launched(BridgeSteps(b), TRUE, b.exc, None(0), 0)
               EXCEPT !.cause = b.cause]
       ELSE IF ~run_ok
            THEN Launched(BridgeSteps(b) \o <<"run">>, TRUE, ErrRun,
                          None(0), 0)
            ELSE Launched(BridgeSteps(b) \o <<"run">>, FALSE, "",
                          None(0), 0)

serve(obj, got, engine_ok, run_ok) ==
  Served(obj,
         FastMCPServer(CallGetMetadata(obj, got), engine_ok, "mcp-chain"),
         run_ok)

\* _is_chain
\* (variant: an MCPChainBuilder does not pass)
is_chain_no_builder(obj) ==
  obj.present /\ obj.gm = "callable" /\ obj.hr = "callable" /\ ~obj.builder

is_chain(obj) == obj.present /\ obj.gm = "callable" /\ obj.hr = "callable"

\* dir(module): the names a script may define, in sorted order; a module is
\* the sequence of their values
Names == <<"_private", "app", "chain", "server">>
NameOfChain == 3

\* the loops of strategy 2 and strategy 3 over dir(module): the index of the
\* first hit, 0 when there is none
RECURSIVE FirstChain(_, _)
FirstChain(module, i) ==
  IF i > Len(Names) THEN 0
  ELSE IF module[i].present /\ ~startswith(Names[i], "_")
          /\ is_chain(module[i])
       THEN i
       ELSE FirstChain(module, i + 1)

RECURSIVE FirstBuilder(_, _)
FirstBuilder(module, i) ==
  IF i > Len(Names) THEN 0
  ELSE IF module[i].present /\ ~startswith(Names[i], "_")
          /\ module[i].builder
       THEN i
       ELSE FirstBuilder(module, i + 1)

\* _find_chain_in_module: the index of the attribute returned, 0 for None
\* (variant: strategy 2 is tried before strategy 1)
find_chain_in_module_by_dir_order(module) ==
  IF FirstChain(module, 1) # 0 THEN FirstChain(module, 1)
  ELSE FirstBuilder(module, 1)

find_chain_in_module(module) ==
  IF module[NameOfChain].present /\ is_chain(module[NameOfChain])
  THEN NameOfChain
  ELSE IF FirstChain(module, 1) # 0 THEN FirstChain(module, 1)
       ELSE FirstBuilder(module, 1)

\* the strategy of _find_chain_in_module that returns: 1 the attribute
\* chain, 2 the first attribute passing _is_chain, 3 the first
\* MCPChainBuilder, 0 when None is returned
found_by(module) ==
  IF module[NameOfChain].present /\ is_chain(module[NameOfChain]) THEN 1
  ELSE IF FirstChain(module, 1) # 0 THEN 2
       ELSE IF FirstBuilder(module, 1) # 0 THEN 3
            ELSE 0

\* main() after the script is loaded: chosen is what _find_chain_in_module
\* gave, s what serve(chain) does
\* (variant: a failure of serve is not turned into an exit status)
Started_no_exit(chosen, s) ==
  IF chosen = 0
  THEN Launched(<<"exec_module", "find_chain">>, FALSE, "", Some(1), 0)
  ELSE Launched(<<"exec_module", "find_chain", "serve">> \o s.steps,
                s.raised, s.exc, None(0), chosen)

Started(chosen, s) ==
  IF chosen = 0
  THEN Launched(<<"exec_module", "find_chain">>, FALSE, "", Some(1), 0)
  ELSE Launched(<<"exec_module", "find_chain", "serve">> \o s.steps,
                FALSE, "", IF s.raised THEN Some(1) ELSE None(0), chosen)

\* main(): argv is sys.argv, file_exists what os.path.exists gives, load_ok
\* whether the script loads without an exception, module what it defines
main(argv, file_exists, load_ok, module, got, engine_ok, run_ok) ==
  IF Len(argv) # 2
  THEN Launched(<<>>, FALSE, "", Some(1), 0)
  ELSE IF ~file_exists
       THEN Launched(<<>>, FALSE, "", Some(1), 0)
       ELSE IF ~load_ok
            THEN Launched(<<"exec_module">>, FALSE, "", Some(1), 0)
            ELSE Started(find_chain_in_module(module),
                         IF find_chain_in_module(module) = 0
                         THEN Launched(<<>>, FALSE, "", None(0), 0)
                         ELSE serve(module[find_chain_in_module(module)],
                                    got, engine_ok, run_ok))

(* --------------------------- Launch actions ---------------------------- *)
\* the last call of serve or main with what it was given
NoLaunch ==
  [op |-> "none", chain |-> NoAttribute, argv |-> <<>>,
   file_exists |-> FALSE, load_ok |-> FALSE, module |-> <<>>,
   got |-> Returns(<<>>), engine_ok |-> FALSE, run_ok |-> FALSE,
   r |-> Launched(<<>>, FALSE, "", None(0), 0)]

\* serve(chain)
Serve(obj, got, engine_ok, run_ok) ==
  /\ launch_last.op = "none"
  /\ launch_last' = [NoLaunch EXCEPT
                       !.op = "serve", !.chain = obj, !.got = got,
                       !.engine_ok = engine_ok, !.run_ok = run_ok,
                       !.r = serve(obj, got, engine_ok, run_ok)]
  /\ UNCHANGED <<chainVars, cliVars, extVars, bridge, br_last, front_last>>

\* mcp-chain <argv>
Main(argv, file_exists, load_ok, module, got, engine_ok, run_ok) ==
  /\ launch_last.op = "none"
  /\ launch_last' = [NoLaunch EXCEPT
                       !.op = "main", !.argv = argv,
                       !.file_exists = file_exists, !.load_ok = load_ok,
                       !.module = module, !.got = got,
                       !.engine_ok = engine_ok, !.run_ok = run_ok,
                       !.r = main(argv, file_exists, load_ok, module, got,
                                  engine_ok, run_ok)]
  /\ UNCHANGED <<chainVars, cliVars, extVars, bridge, br_last, front_last>>

(* ------------------------- Front adapter: JSON ------------------------- *)
\* A JSON object as the dict json.loads makes: the keys with their values in
\* the order of insertion
JDict(entries) ==
  [t |-> "dict", s |-> "", n |-> 0, b |-> FALSE, items |-> entries]

\* d[key] = v
RECURSIVE DictSet(_, _, _, _)
DictSet(entries, i, key, v) ==
  IF i > Len(entries) THEN Append(entries, <<key, v>>)
  ELSE IF entries[i][1] = key THEN [entries EXCEPT ![i] = <<key, v>>]
       ELSE DictSet(entries, i + 1, key, v)

\* What the scanner of json.loads gives at a position: the value and the
\* text after it, or no value (JSONDecodeError)
Parsed(v, rest) == [ok |-> TRUE, v |-> v, rest |-> rest]
NotJSON == [ok |-> FALSE, v |-> JNull, rest |-> ""]

First(s) == IF s = "" THEN "" ELSE SubSeq(s, 1, 1)
From(s, i) == SubSeq(s, i, Len(s))
IsDigit(ch) == \E d \in 1..10 : Digits[d] = ch
DigitValue(ch) == (CHOOSE d \in 1..10 : Digits[d] = ch) - 1

\* json.loads for JSON texts with integers for numbers and strings without
\* escapes: objects, arrays, strings, integers, true, false, null
RECURSIVE json_string(_, _)
json_string(s, acc) ==
  IF s = "" \/ First(s) \in {"\\", "\n", "\t", "\r"} THEN NotJSON
  ELSE IF First(s) = "\"" THEN Parsed(JStr(acc), From(s, 2))
       ELSE json_string(From(s, 2), acc \o First(s))

RECURSIVE json_digits(_, _, _)
json_digits(s, sign, n) ==
  IF IsDigit(First(s))
  THEN json_digits(From(s, 2), sign, 10 * n + DigitValue(First(s)))
  ELSE Parsed(JInt(sign * n), s)

json_number(s, sign) ==
  IF ~IsDigit(First(s)) THEN NotJSON
  ELSE IF First(s) = "0" THEN Parsed(JInt(0), From(s, 2))
       ELSE json_digits(s, sign, 0)

RECURSIVE json_value(_), json_members(_, _), json_elements(_, _),
          AfterKey(_, _), AfterMember(_, _, _), AfterElement(_, _)

\* s begins with the value
json_value(s) ==
  CASE First(s) = "{" ->
         IF First(lstrip(From(s, 2))) = "}"
         THEN Parsed(JDict(<<>>), From(lstrip(From(s, 2)), 2))
         ELSE json_members(lstrip(From(s, 2)), <<>>)
    [] First(s) = "[" ->
         IF First(lstrip(From(s, 2))) = "]"
         THEN Parsed(JList(<<>>), From(lstrip(From(s, 2)), 2))
         ELSE json_elements(lstrip(From(s, 2)), <<>>)
    [] First(s) = "\"" -> json_string(From(s, 2), "")
    [] First(s) = "-" -> json_number(From(s, 2), -1)
    [] IsDigit(First(s)) -> json_number(s, 1)
    [] startswith(s, "true") -> Parsed(JBool(TRUE), From(s, 5))
    [] startswith(s, "false") -> Parsed(JBool(FALSE), From(s, 6))
    [] startswith(s, "null") -> Parsed(JNull, From(s, 5))
    [] OTHER -> NotJSON

\* s begins with the key of a member; entries are the members before it
json_members(s, entries) ==
  IF First(s) # "\"" THEN NotJSON
  ELSE AfterKey(json_string(From(s, 2), ""), entries)

\* key is the key as parsed: a colon and the value follow
AfterKey(key, entries) ==
  IF ~key.ok \/ First(lstrip(key.rest)) # ":" THEN NotJSON
  ELSE AfterMember(key.v.s,
                   json_value(lstrip(From(lstrip(key.rest), 2))), entries)

\* r is the value of the member as parsed: a comma or the brace follows
AfterMember(key, r, entries) ==
  IF ~r.ok THEN NotJSON
  ELSE IF First(lstrip(r.rest)) = ","
       THEN json_members(lstrip(From(lstrip(r.rest), 2)),
                         DictSet(entries, 1, key, r.v))
       ELSE IF First(lstrip(r.rest)) = "}"
            THEN Parsed(JDict(DictSet(entries, 1, key, r.v)),
                        From(lstrip(r.rest), 2))
            ELSE NotJSON

\* s begins with an element of an array; items are the elements before it
json_elements(s, items) == AfterElement(json_value(s), items)

AfterElement(r, items) ==
  IF ~r.ok THEN NotJSON
  ELSE IF First(lstrip(r.rest)) = ","
       THEN json_elements(lstrip(From(lstrip(r.rest), 2)), Append(items, r.v))
       ELSE IF First(lstrip(r.rest)) = "]"
            THEN Parsed(JList(Append(items, r.v)), From(lstrip(r.rest), 2))
            ELSE NotJSON

\* the whole text is one value with white space around it
WholeText(r) == IF r.ok /\ lstrip(r.rest) = "" THEN r ELSE NotJSON
loads(s) == WholeText(json_value(lstrip(s)))

\* json.dumps with the default separators
RECURSIVE dumps(_), DumpItems(_, _), DumpMembers(_, _)
DumpItems(items, i) ==
  IF i > Len(items) THEN ""
  ELSE (IF i > 1 THEN ", " ELSE "") \o dumps(items[i])
         \o DumpItems(items, i + 1)
DumpMembers(entries, i) ==
  IF i > Len(entries) THEN ""
  ELSE (IF i > 1 THEN ", " ELSE "") \o "\"" \o entries[i][1] \o "\": "
         \o dumps(entries[i][2]) \o DumpMembers(entries, i + 1)
dumps(v) ==
  CASE v.t = "str"  -> "\"" \o v.s \o "\""
    [] v.t = "int"  -> str_int(v.n)
    [] v.t = "bool" -> IF v.b THEN "true" ELSE "false"
    [] v.t = "none" -> "null"
    [] v.t = "list" -> "[" \o DumpItems(v.items, 1) \o "]"
    [] v.t = "dict" -> "{" \o DumpMembers(v.items, 1) \o "}"

\* the error response of FrontMCPServer.handle_request
ParseErrorResponse ==
  JDict(<< <<"jsonrpc", JStr("2.0")>>, <<"id", JNull>>,
           <<"error", JDict(<< <<"code", JInt(-32700)>>,
                               <<"message", JStr("Parse error")>> >>)>> >>)

\* What a call on the front adapter leaves: the requests given to the
\* wrapped chain, the string returned or the exception raised
Fronted(requests, raised, exc, ret) ==
  [requests |-> requests, raised |-> raised, exc |-> exc, ret |-> ret]

\* FrontMCPServer.handle_request: p is json.loads(request), does what the
\* wrapped chain does with the parsed request
\* (variant: the wrapped chain is called before the request is parsed)
front_handle_request_forward_first(p, does) ==
  IF ~p.ok
  THEN Fronted(<<JNull>>, FALSE, "", dumps(ParseErrorResponse))
  ELSE IF does.raises THEN Fronted(<<p.v>>, TRUE, does.exc, "")
       ELSE Fronted(<<p.v>>, FALSE, "", dumps(does.v))

front_handle_request(p, does) ==
  IF ~p.ok
  THEN Fronted(<<>>, FALSE, "", dumps(ParseErrorResponse))
  ELSE IF does.raises THEN Fronted(<<p.v>>, TRUE, does.exc, "")
       ELSE Fronted(<<p.v>>, FALSE, "", dumps(does.v))

\* FrontMCPServer.get_metadata
front_get_metadata(does) ==
  IF does.raises THEN Fronted(<<>>, TRUE, does.exc, "")
  ELSE Fronted(<<>>, FALSE, "", dumps(does.v))

(* ---------------------------- Front actions ---------------------------- *)
NoFrontCall ==
  [op |-> "none", request |-> "", does |-> Returns(JNull),
   r |-> Fronted(<<>>, FALSE, "", "")]

\* front.handle_request(request)
FrontHandleRequest(request, does) ==
  /\ front_last' = [op |-> "handle_request", request |-> request,
                    does |-> does,
                    r |-> front_handle_request(loads(request), does)]
  /\ UNCHANGED <<chainVars, cliVars, extVars, bridge, br_last, launch_last>>

\* front.get_metadata()
FrontGetMetadata(does) ==
  /\ front_last' = [op |-> "get_metadata", request |-> "", does |-> does,
                    r |-> front_get_metadata(does)]
  /\ UNCHANGED <<chainVars, cliVars, extVars, bridge, br_last, launch_last>>


HostInit ==
  /\ bridge = NoBridge
  /\ br_last = NoBridgeCall
  /\ launch_last = NoLaunch
  /\ front_last = NoFrontCall

Init ==
  /\ ChainInit
  /\ cli = NoAdapter
  /\ cli_last = NoCLICall
  /\ ext = NoExternal
  /\ children = <<>>
  /\ wire = <<>>
  /\ ext_last = NoExtCall
  /\ HostInit
  /\ PipeInit

Spec == Init /\ [][Next]_vars

\* The CLI adapter on its own: the chain objects stay as constructed.
CLIInit ==
  /\ ChainInit
  /\ chain = TheBuilder
  /\ cli = NoAdapter
  /\ cli_last = NoCLICall
  /\ ext = NoExternal
  /\ children = <<>>
  /\ wire = <<>>
  /\ ext_last = NoExtCall
  /\ HostInit
  /\ PipeInit

CLINext ==
  \/ \E command \in CommandArgs, commands \in CommandsArgs,
        description \in DescriptionArgs, descriptions \in DescriptionsArgs :
       CLIConstruct(command, commands, description, descriptions)
  \/ \E probe \in [Cmds -> ProbePairs] : CLIGetMetadata(probe)

CLISpec == CLIInit /\ [][CLINext]_vars

\* Requests and command runs given to the CLI adapter
Ids       == {None(0), Some(7)}
Methods   == {None(""), Some("tools/list"), Some("tools/call"),
              Some("resources/list")}
ToolNames == {None(""), Some("a"), Some("b"), Some("zz")}
ArgMaps ==
  { Args(<<>>),
    Args(<< <<"l", JBool(TRUE)>>, <<"verbose", JBool(TRUE)>>,
            <<"q", JBool(FALSE)>> >>),
    Args(<< <<"_args", JList(<<JStr("x"), JInt(12)>>)>>, <<"n", JInt(3)>>,
            <<"_skip", JStr("s")>>, <<"name", JStr("v")>> >>),
    Args(<< <<"I", JList(<<JStr("p"), JStr("q")>>)>>,
            <<"_args", JStr("file")>> >>),
    Args(<< <<"tags", JList(<<>>)>>, <<"x", JNull>>,
            <<"_args", JList(<<JBool(TRUE)>>)>> >>),
    NotADict }
Runs ==
  { Ran("out\n", "", 0), Ran("", "", 0), Ran(" \n", "warn", 0),
    Ran("some output", "error message", 1), Ran("", "\t", 2),
    Failed("timeout", ""),
    Failed("not_found", "[Errno 2] No such file or directory: 'a'"),
    Failed("error", "embedded null byte") }

ListRequests ==
  {Request(Some("tools/list"), id, params) :
     id \in Ids, params \in {None(NoParams), Some(NoParams)}}
CallRequests ==
  {Request(Some("tools/call"), id, None(NoParams)) : id \in Ids}
  \cup {Request(Some("tools/call"), id, Some(Params(name, None(Args(<<>>))))) :
          id \in Ids, name \in ToolNames}
  \cup {Request(Some("tools/call"), Some(7),
                Some(Params(Some("a"), Some(arguments)))) :
          arguments \in ArgMaps}
OtherRequests ==
  {Request(method, id, None(NoParams)) :
     method \in Methods \ {Some("tools/list"), Some("tools/call")},
     id \in Ids}
  \cup {Request(Some("resources/list"), Some(7),
                Some(Params(Some("a"), Some(Args(<<>>)))))}

CallProbePairs ==
  { <<Completed(HelpLs, NoText), Raised("timeout")>>,
    <<Raised("timeout"), Completed(HelpLs, NoText)>>,
    <<Raised("not_found"), Raised("not_found")>> }
ListProbes == [Cmds -> CallProbePairs]

\* The CLI adapter serving requests
CLICallNext ==
  \/ \E commands \in CommandsArgs :
       CLIConstruct(None(""), commands, None(""), <<>>)
  \/ \E probe \in ListProbes : CLIGetMetadata(probe)
  \/ \E req \in ListRequests, probe \in ListProbes :
       CLIHandleRequest(req, probe, NoRun)
  \/ \E req \in CallRequests, run \in Runs :
       CLIHandleRequest(req, <<>>, run)
  \/ \E req \in OtherRequests : CLIHandleRequest(req, <<>>, NoRun)

CLICallSpec == CLIInit /\ [][CLICallNext]_vars

\* A middleware node with an editing metadata transformer over the CLI
\* adapter
Transformers == {"first_transformer", "add_auth_metadata"}

CLIChainNext ==
  \/ \E commands \in CommandsArgs, descriptions \in DescriptionsArgs :
       CLIConstruct(None(""), commands, None(""), descriptions)
  \/ \E probe \in ListProbes : CLIGetMetadata(probe)
  \/ \E t \in Transformers, probe \in ListProbes :
       CLIChainGetMetadata(t, probe)

CLIChainSpec == CLIInit /\ [][CLIChainNext]_vars

\* The external adapter on its own
ExtRequests == {Sent("tools/call", Some(7)), Sent("initialize", Some(1))}

ExtInit == CLIInit

ExtNext ==
  \/ \E command \in {None(""), Some("server")} : ExtConstruct(command)
  \/ \E popen_ok \in BOOLEAN, reply \in Replies : ExtConnect(popen_ok, reply)
  \/ \E popen_ok \in BOOLEAN, init_reply \in Replies, reply \in Replies :
       ExtGetMetadata(popen_ok, init_reply, reply)
  \/ \E request \in ExtRequests, popen_ok \in BOOLEAN,
        init_reply \in Replies, reply \in Replies :
       ExtHandleRequest(request, popen_ok, init_reply, reply)
  \/ \E in_time \in BOOLEAN : ExtDisconnect(in_time)
  \/ \E p \in 1..MaxChildren : ChildExits(p)

ExtSpec == ExtInit /\ [][ExtNext]_vars

\* The external adapter step by step, with two callers
PipeRequests == {Sent("tools/call", Some(7))}

PipeStep ==
  \/ \E t \in Callers : PipeCall(t, "get_metadata", ToolsRequest)
  \/ \E t \in Callers, req \in PipeRequests : PipeCall(t, "handle_request", req)
  \/ \E t \in Callers : PipeSpawn(t)
  \/ \E t \in Callers : PipeSend(t)
  \/ \E t \in Callers : PipeRecv(t)
  \/ \E t \in Callers : PipeWait(t)
  \/ PipeDisconnect
  \/ \E p \in 1..MaxKids : KidAnswers(p)
  \/ \E p \in 1..MaxKids : KidEmitsExtra(p)
  \/ \E p \in 1..MaxKids : KidExits(p)

PipeNext ==
  /\ PipeStep
  /\ UNCHANGED <<chainVars, cliVars, hostVars, ext, children, wire, ext_last>>

PipeSpec == CLIInit /\ [][PipeNext]_vars

\* Metadata and downstream outcomes given to the bridge
ToolEntries ==
  { NotAMapping("<class 'str'>"), Entry(Absent, None("")),
    Entry(KStr(""), None("")), Entry(KStr("a"), None("")),
    Entry(KStr("b"), Some("description of b")), Entry(KNum(5), None("")) }
ResourceEntries ==
  { NotAMapping("<class 'int'>"), Entry(Absent, None("")),
    Entry(KStr("u://1"), None("")), Entry(KNum(5), None("")) }
Lists(S) ==
  {None(<<>>)} \cup {Some(q) : q \in SeqsUpTo(S, MaxEntries)}
Metadatas ==
  {Metadata(t, r) : <<t, r>> \in
     {p \in Lists(ToolEntries) \X Lists(ResourceEntries) :
        Len(p[1].v) + Len(p[2].v) <= MaxEntries}}
Gots == {Raises("ValueError: boom")} \cup {Returns(m) : m \in Metadatas}
HandlerArguments ==
  {None(Args(<<>>)), Some(Args(<<>>)), Some(Args(<< <<"n", JInt(3)>> >>))}
Does ==
  { Returns([result |-> "ok"]), Returns([error |-> "Tool not found: a"]),
    Raises("ValueError: boom"), Raises("RuntimeError: Not connected") }

BridgeInit == CLIInit

BridgeNext ==
  \/ /\ br_last.op = "none"
     /\ \E got \in Gots : BridgeConstruct(got, TRUE)
  \/ \E got \in {Raises("ValueError: boom"),
                  Returns(Metadata(None(<<>>), None(<<>>)))} :
       BridgeConstruct(got, FALSE)
  \/ \E i \in 1..MaxEntries, arguments \in HandlerArguments, does \in Does :
       BridgeCallTool(i, arguments, does)
  \/ \E i \in 1..MaxEntries, does \in Does : BridgeReadResource(i, does)
  \/ \E kwargs \in SUBSET {"name", "transport"}, does \in Does :
       BridgeRun(kwargs, does)

BridgeSpec == BridgeInit /\ [][BridgeNext]_vars

\* Objects, scripts and command lines given to serve and to the launcher
MaxArgv == 3          \* length of sys.argv

ServedValues ==
  { PyObj("missing", "missing", FALSE), PyObj("callable", "missing", FALSE),
    PyObj("missing", "callable", FALSE), PyObj("data", "callable", FALSE),
    PyObj("callable", "callable", FALSE), PyObj("callable", "callable", TRUE),
    PyClass("callable", "callable") }
ModuleValues ==
  { NoAttribute, PyObj("missing", "missing", FALSE),
    PyObj("callable", "callable", FALSE), PyObj("data", "callable", FALSE),
    PyObj("data", "callable", TRUE), PyObj("callable", "callable", TRUE),
    PyClass("callable", "callable") }
Modules == [1..Len(Names) -> ModuleValues]
LaunchGots ==
  { Raises("ValueError: No downstream server configured"),
    Returns(Metadata(Some(<<Entry(KStr("a"), None(""))>>), None(<<>>))) }
Argvs ==
  {[i \in 1..n |-> IF i = 1 THEN "mcp-chain" ELSE "chain_" \o str_nat(i) \o ".py"] :
     n \in 1..MaxArgv}

LaunchInit == CLIInit

\* a process makes one call: the inputs are drawn in the first step only
LaunchNext ==
  \/ /\ launch_last.op = "none"
     /\ \E obj \in ServedValues, got \in LaunchGots, engine_ok \in BOOLEAN,
           run_ok \in BOOLEAN :
          Serve(obj, got, engine_ok, run_ok)
  \/ /\ launch_last.op = "none"
     /\ \E module \in Modules, got \in LaunchGots, run_ok \in BOOLEAN :
          Main(<<"mcp-chain", "chain_2.py">>, TRUE, TRUE, module, got, TRUE,
               run_ok)
  \/ /\ launch_last.op = "none"
     /\ \E argv \in Argvs, file_exists \in BOOLEAN, load_ok \in BOOLEAN,
           engine_ok \in BOOLEAN :
          Main(argv, file_exists, load_ok,
               [i \in 1..Len(Names) |-> PyObj("callable", "callable", FALSE)],
               Returns(Metadata(None(<<>>), None(<<>>))), engine_ok, TRUE)

LaunchSpec == LaunchInit /\ [][LaunchNext]_vars

\* Request strings and answers of the wrapped chain given to the front
\* adapter
FrontRequests ==
  { "{\"method\": \"tools/list\", \"id\": 1}",
    "{\"jsonrpc\": \"2.0\", \"method\": \"tools/call\", \"id\": 7, \"params\": {\"name\": \"a\", \"arguments\": {\"n\": -3, \"v\": [true, null, \"x\"]}}}",
    "{}", " {\"id\" : null ,\"ok\":false}\n", "{\"a\": 1, \"b\": [], \"a\": 20}",
    "[1, 2]", "105", "\"text\"", "null",
    "{\"method\": \"tools/call\", \"params\": invalid}",
    "", "{", "{\"id\": 1,}", "{'id': 1}", "{\"id\": 1} x", "01", "nul",
    "[1 2]", "{\"id\" 1}", "{\"id: 1}" }
FrontDoes ==
  { Returns(JDict(<< <<"result", JStr("success")>> >>)),
    Returns(JDict(<< <<"jsonrpc", JStr("2.0")>>, <<"id", JInt(7)>>,
                     <<"result", JDict(<< <<"content", JList(<<JStr("a")>>)>>,
                                          <<"isError", JBool(FALSE)>> >>)>> >>)),
    Returns(JDict(<< <<"tools", JList(<<>>)>>, <<"server_name", JNull>> >>)),
    Returns(JDict(<<>>)),
    Raises("ValueError: No downstream server configured"),
    Raises("RuntimeError: Not connected") }

FrontInit == CLIInit

FrontNext ==
  \/ \E request \in FrontRequests, does \in FrontDoes :
       FrontHandleRequest(request, does)
  \/ \E does \in FrontDoes : FrontGetMetadata(does)

FrontSpec == FrontInit /\ [][FrontNext]_vars

(* ------------------------- reading the history ------------------------- *)
\* the request / metadata transformer a then() argument list supplies
ReqOf(a)  == a[Len(a)]
IsFnArgs(a) == Len(a) \in {1, 2} /\ a[1].t \notin {"obj", "constructor"}
IsTerminalArgs(a) == Len(a) = 1 /\ a[1] = Obj(TheTerminal)

\* object n was built as mcp_chain().then(a1)...then(ak), all ai functions
Unterminated(n) ==
  /\ n # 0
  /\ \A i \in 1..Len(built[n]) : IsFnArgs(built[n][i])
\* object n was built as mcp_chain().then(a1)...then(ak).then(terminal), k >= 1
Terminated(n) ==
  /\ n # 0
  /\ Len(built[n]) >= 2
  /\ IsTerminalArgs(built[n][Len(built[n])])
  /\ \A i \in 1..(Len(built[n]) - 1) : IsFnArgs(built[n][i])
\* number of transformer layers of such a chain, and the functions attached
LayerCount(n) == Len(built[n]) - 1
Attached(n, i) == ReqOf(built[n][i])

\* objects reachable from n through _downstream
RECURSIVE Reach(_, _)
Reach(h, n) == IF n = 0 THEN {} ELSE {n} \cup Reach(h, h[n].down)

Reverse(s) == [i \in 1..Len(s) |-> s[Len(s) + 1 - i]]

(* ------------------------------- claims -------------------------------- *)

IsWrap(f) == f.t = "wrap"
\* the first layer whose transformer does not call downstream for last.req
BlockingLayer(n) ==
  CHOOSE k \in 1..LayerCount(n) :
    /\ Attached(n, k) = Cond
    /\ \A i \in 1..(k - 1) : Attached(n, i) # Cond

C3_Case ==
  /\ last.op = "handle_request"
  /\ Terminated(last.recv)
  /\ ~last.req.authorized
  /\ \E k \in 1..LayerCount(last.recv) : Attached(last.recv, k) = Cond

C3_Result ==
  LET k == BlockingLayer(last.recv)
      before == SelectSeq([i \in 1..(k - 1) |-> Attached(last.recv, i)], IsWrap)
      m == Len(before)
  IN /\ last.ok
     /\ last.events = [i \in 1..k |-> Pre(Attached(last.recv, i))]
                        \o [i \in 1..m |-> Post(before[m + 1 - i])]
     /\ last.val.src = 0
     /\ last.val.processed = [i \in 1..m |-> before[m + 1 - i].k]

C4_NoTerminal ==
  (/\ last.op \in {"get_metadata", "handle_request"}
   /\ Unterminated(last.recv)
   /\ last.op = "handle_request" =>
        \A i \in 1..Len(built[last.recv]) :
          ReqOf(built[last.recv][i]) = Cond => last.req.authorized)
  => /\ ~last.ok
     /\ last.err = ErrNoDownstream
     /\ last.val = NoValue

C4_Witness ==
  /\ last.op = "get_metadata"
  /\ Unterminated(last.recv)
  /\ Len(built[last.recv]) = 2
  /\ heap[last.recv].kind = "mw"
  /\ last.err = ErrNoDownstream

\* C5: builder.then(x), x a terminal, returns x itself: no object is created
\* and the builder is not part of the result.
C5_BuilderReturnsTerminal ==
  (/\ last.op = "then"
   /\ heap[last.recv].kind = "builder"
   /\ IsTerminalArgs(last.args))
  => /\ last.ok
     /\ last.result = TheTerminal
     /\ Len(heap) = last.size
     /\ last.recv \notin Reach(heap, last.result)

C5_Witness ==
  /\ last.op = "then"
  /\ last.recv = TheBuilder
  /\ IsTerminalArgs(last.args)
  /\ chain = TheTerminal

\* C6: then() with any arguments on middleware nodes whose innermost
\* downstream is a terminal raises "Cannot chain on downstream server" and
\* creates nothing.
RECURSIVE Innermost(_, _)
Innermost(h, n) == IF h[n].kind = "mw" /\ h[n].down # 0
                   THEN Innermost(h, h[n].down) ELSE n

C6_Case ==
  /\ last.op = "then"
  /\ heap[last.recv].kind = "mw"
  /\ heap[Innermost(heap, last.recv)].kind = "terminal"

C6_NothingPastTerminal ==
  C6_Case => /\ ~last.ok
             /\ last.err = ErrCannotChain
             /\ last.result = 0
             /\ Len(heap) = last.size

C6_Witness ==
  /\ C6_Case
  /\ Terminated(last.recv)
  /\ LayerCount(last.recv) = 2
  /\ last.args = <<Tag(1), Pass>>
  /\ last.err = ErrCannotChain

\* C7: then() changes no existing object, and the two continuations built
\* from the same partial chain share only what the partial chain already
\* had (and the terminal attached to both).
C7_Independent ==
  other # 0 =>
    \A n \in Reach(heap, chain) \cap Reach(heap, other) :
      n \in Reach(heap, partial) \/ n = TheTerminal

C7_ThenIsPure ==
  [][/\ last'.op = "then" => \A i \in DOMAIN heap : heap'[i] = heap[i]
     /\ C7_Independent']_vars

C7_Witness ==
  /\ other # 0
  /\ heap[partial].kind = "mw"
  /\ chain # partial
  /\ Terminated(chain)
  /\ Terminated(other)
  /\ heap[partial].down = TheBuilder

\* C8: then(f) with one function installs f as request transformer and the
\* identity as metadata transformer: get_metadata returns the terminal's
\* metadata, as the chain built with then(identity_metadata, f) does, and no
\* request transformer runs.
\* the i-th object of the chain that starts at n
RECURSIVE NodeAt(_, _, _)
NodeAt(h, n, i) == IF i = 1 THEN n ELSE NodeAt(h, h[n].down, i - 1)

C8_Case ==
  /\ last.op = "get_metadata"
  /\ Terminated(last.recv)
  /\ \A i \in 1..LayerCount(last.recv) : Len(built[last.recv][i]) = 1

C8_SingleArgIsRequestTransformer ==
  C8_Case =>
    /\ last.ok
    /\ last.val = get_metadata(heap, TheTerminal).val
    /\ \A i \in DOMAIN last.events :
         last.events[i][2] \notin {"wrap", "cond", "pass"}
    /\ \A i \in 1..LayerCount(last.recv) :
         /\ heap[NodeAt(heap, last.recv, i)].rt = Attached(last.recv, i)
         /\ heap[NodeAt(heap, last.recv, i)].mt = DefaultMetadata
    /\ \A m \in DOMAIN heap :
         (/\ Terminated(m)
          /\ LayerCount(m) = LayerCount(last.recv)
          /\ \A i \in 1..LayerCount(m) :
               built[m][i] = <<IdentityMetadata, Attached(last.recv, i)>>)
         => get_metadata(heap, m).val = last.val

C8_Witness ==
  /\ C8_Case
  /\ last.recv = chain
  /\ built[chain] = <<<<Wrap(1)>>, <<Obj(TheTerminal)>>>>
  /\ other # 0
  /\ built[other] = <<<<IdentityMetadata, Wrap(1)>>, <<Obj(TheTerminal)>>>>
  /\ last.val.desc = <<0>>

\* C9 (as stated): constructing the adapter with neither command nor
\* commands fails with "Either 'command' or 'commands' must be provided" and
\* yields no adapter; otherwise commands, when supplied, is the command set
\* and command is its first element, and commands = [command] when only
\* command is supplied.
C9_AsStated ==
  cli_last.op = "construct" =>
    IF ~cli_last.command.some /\ ~cli_last.commands.some
    THEN ~cli_last.ok /\ cli_last.err = ErrNeither /\ ~cli.exists
    ELSE /\ cli_last.ok
         /\ cli.exists
         /\ IF cli_last.commands.some
            THEN /\ cli.commands = cli_last.commands.v
                 /\ Len(cli.commands) >= 1
                 /\ cli.command = Some(cli.commands[1])
            ELSE /\ cli.commands = <<cli_last.command.v>>
                 /\ cli.command = cli_last.command

\* C9 (amended): as C9, except that command is None when the supplied
\* commands list is empty.
C9_CommandSelection ==
  cli_last.op = "construct" =>
    IF ~cli_last.command.some /\ ~cli_last.commands.some
    THEN ~cli_last.ok /\ cli_last.err = ErrNeither /\ ~cli.exists
    ELSE /\ cli_last.ok
         /\ cli.exists
         /\ IF cli_last.commands.some
            THEN /\ cli.commands = cli_last.commands.v
                 /\ IF cli.commands = <<>>
                    THEN cli.command = None("")
                    ELSE cli.command = Some(cli.commands[1])
            ELSE /\ cli.commands = <<cli_last.command.v>>
                 /\ cli.command = cli_last.command

C9_Witness ==
  /\ cli_last.op = "construct"
  /\ cli_last.command = Some("a")
  /\ cli_last.commands = Some(<<"b", "a">>)
  /\ cli.commands = <<"b", "a">>
  /\ cli.command = Some("b")

\* C10: get_metadata of the CLI adapter returns tools, resources = [] and
\* server_name = name, with one tool per configured command, named after it,
\* in the configured order, however the help runs end.
C10_OneToolPerCommand ==
  cli_last.op = "get_metadata" =>
    /\ cli_last.val.resources = <<>>
    /\ cli_last.val.server_name = cli.name
    /\ Len(cli_last.val.tools) = Len(cli.commands)
    /\ \A i \in 1..Len(cli.commands) :
         cli_last.val.tools[i].name = cli.commands[i]

C10_Witness ==
  /\ cli_last.op = "get_metadata"
  /\ cli.commands = <<"a", "b">>
  /\ cli_last.probe["a"][1].kind = "timeout"
  /\ cli_last.probe["b"][1].kind = "not_found"
  /\ cli_last.probe["b"][2].kind = "not_found"
  /\ cli_last.spawned = 4
  /\ Len(cli_last.val.tools) = 2
  /\ cli_last.val.tools[1].name = "a"
  /\ cli_last.val.tools[2].name = "b"

(* --------------------- CLI adapter: handle_request --------------------- *)
\* what the adapter read from the last request
LastMethod == IF cli_last.req.method.some THEN cli_last.req.method.v ELSE ""
LastToolName ==
  IF cli_last.req.params.some /\ cli_last.req.params.v.name.some
  THEN cli_last.req.params.v.name.v ELSE ""
LastArguments ==
  IF cli_last.req.params.some /\ cli_last.req.params.v.arguments.some
  THEN cli_last.req.params.v.arguments.v ELSE Args(<<>>)
Configured(name) == \E i \in 1..Len(cli.commands) : cli.commands[i] = name
IsErrorResponse(code, message) ==
  /\ ~cli_last.raised
  /\ "error" \in cli_last.resp.keys
  /\ "result" \notin cli_last.resp.keys
  /\ cli_last.resp.error.code = code
  /\ cli_last.resp.error.message = message
IsToolResult ==
  /\ ~cli_last.raised
  /\ "result" \in cli_last.resp.keys
  /\ "error" \notin cli_last.resp.keys
  /\ cli_last.resp.result.keys = {"content", "isError"}
  /\ Len(cli_last.resp.result.content) = 1
  /\ cli_last.resp.result.content[1].type = "text"
LastText == cli_last.resp.result.content[1].text
C14_EndsWith(s, suffix) ==
  Len(s) >= Len(suffix)
  /\ SubSeq(s, Len(s) - Len(suffix) + 1, Len(s)) = suffix

\* C11: handle_request answers a method other than tools/list and
\* tools/call with error -32601 "Method not found: {method}", and a
\* tools/call whose params.name is not a configured command with error
\* -32602 "Tool not found: {name}"; in both cases no process is run.
C11_InvalidInputIsError ==
  cli_last.op = "handle_request" =>
    /\ LastMethod \notin {"tools/list", "tools/call"} =>
         /\ IsErrorResponse(-32601, "Method not found: " \o LastMethod)
         /\ cli_last.spawned = 0
         /\ cli_last.argv = <<>>
    /\ (LastMethod = "tools/call" /\ ~Configured(LastToolName)) =>
         /\ IsErrorResponse(-32602, "Tool not found: " \o LastToolName)
         /\ cli_last.spawned = 0
         /\ cli_last.argv = <<>>

C11_Witness ==
  /\ cli_last.op = "handle_request"
  /\ cli.commands = <<"a">>
  /\ LastMethod = "tools/call"
  /\ LastToolName = "b"
  /\ cli_last.resp.error.code = -32602
  /\ cli_last.resp.error.message = "Tool not found: b"
  /\ cli_last.spawned = 0

\* C12: every response of handle_request has jsonrpc "2.0", the id of the
\* request (null when the request has none) and exactly one of result and
\* error.
C12_ResponseShape ==
  cli_last.op = "handle_request" =>
    /\ ~cli_last.raised
    /\ {"jsonrpc", "id"} \subseteq cli_last.resp.keys
    /\ cli_last.resp.jsonrpc = "2.0"
    /\ cli_last.resp.id = cli_last.req.id
    /\ ("result" \in cli_last.resp.keys) # ("error" \in cli_last.resp.keys)

C12_Witness ==
  /\ cli_last.op = "handle_request"
  /\ LastMethod = "resources/list"
  /\ cli_last.req.id = Some(7)
  /\ cli_last.resp.id = Some(7)
  /\ cli_last.resp.keys = {"jsonrpc", "id", "error"}

\* C13: for a tools/call on a configured command, an exception raised while
\* building or executing the command is not raised to the caller and gives
\* no error member: the response is a result with isError true and one text
\* item beginning "Error executing {tool}:".
C13_Case ==
  /\ cli_last.op = "handle_request"
  /\ LastMethod = "tools/call"
  /\ Configured(LastToolName)
  /\ \/ ~LastArguments.dict
     \/ cli_last.run.kind \in {"timeout", "not_found", "error"}

C13_ExceptionsContained ==
  C13_Case =>
    /\ IsToolResult
    /\ cli_last.resp.result.isError
    /\ startswith(LastText, "Error executing " \o LastToolName \o ":")

C13_Witness ==
  /\ C13_Case
  /\ cli_last.run.kind = "timeout"
  /\ LastToolName = "a"
  /\ LastText = "Error executing a: Command timed out after 30 seconds"
  /\ cli_last.resp.result.isError

\* C14 (as stated): a tool execution ending in a timeout, a spawn failure
\* or a non-zero exit gives a result (no error member) with isError true
\* and a message.
C14_AsStated ==
  (/\ cli_last.op = "handle_request"
   /\ \/ cli_last.run.kind \in {"timeout", "not_found", "error"}
      \/ cli_last.run.kind = "completed" /\ cli_last.run.returncode # 0) =>
    /\ IsToolResult
    /\ cli_last.resp.result.isError
    /\ LastText # ""

\* C14 (amended): a tool execution ending in a timeout or a spawn failure
\* gives a result (no error member) with isError true and a message; one
\* ending in a non-zero exit gives a result with isError false whose text
\* ends with "Exit code: n".
C14_FailuresCaptured ==
  cli_last.op = "handle_request" =>
    /\ cli_last.run.kind \in {"timeout", "not_found", "error"} =>
         /\ IsToolResult
         /\ cli_last.resp.result.isError
         /\ LastText # ""
    /\ (cli_last.run.kind = "completed" /\ cli_last.run.returncode # 0) =>
         /\ IsToolResult
         /\ ~cli_last.resp.result.isError
         /\ C14_EndsWith(LastText,
                         "Exit code: " \o str_int(cli_last.run.returncode))

C14_Witness ==
  /\ cli_last.op = "handle_request"
  /\ cli_last.run.kind = "completed"
  /\ cli_last.run.returncode = 2
  /\ ~cli_last.resp.result.isError
  /\ LastText = "Exit code: 2"

\* C15: when the command runs to completion the result text is the STDOUT:
\* block (iff the trimmed stdout is non-empty), the STDERR: block (iff the
\* trimmed stderr is non-empty) and "Exit code: n" (iff n # 0), in this
\* order and separated by a blank line, or "Command completed with no
\* output" when there is none of them; isError is false in all these cases.
C15_Case ==
  /\ cli_last.op = "handle_request"
  /\ cli_last.run.kind = "completed"

C15_OutputText ==
  C15_Case =>
    LET out   == strip(cli_last.run.stdout)
        err   == strip(cli_last.run.stderr)
        n     == cli_last.run.returncode
        A     == IF out # "" THEN "STDOUT:\n" \o out ELSE ""
        B     == IF err # "" THEN "STDERR:\n" \o err ELSE ""
        C     == IF n # 0 THEN "Exit code: " \o str_int(n) ELSE ""
        Sep(x, y) == IF x # "" /\ y # "" THEN x \o "\n\n" \o y ELSE x \o y
        all   == Sep(Sep(A, B), C)
    IN /\ IsToolResult
       /\ ~cli_last.resp.result.isError
       /\ LastText = IF all = "" THEN "Command completed with no output"
                     ELSE all

C15_Witness ==
  /\ C15_Case
  /\ cli_last.run.stdout = "some output"
  /\ cli_last.run.returncode = 1
  /\ LastText = "STDOUT:\nsome output\n\nSTDERR:\nerror message\n\nExit code: 1"
  /\ ~cli_last.resp.result.isError

\* C16: the argument vector run is the command name, then the flag tokens
\* of every key not starting with "_" in the given order (-k for a key of
\* one character, --key otherwise; true: the flag; false: nothing; a list:
\* the flag before each stringified item; another value: the flag and the
\* stringified value), then the stringified _args items, which so come
\* after every flag wherever the key _args stands.
C16_Case ==
  /\ cli_last.op = "handle_request"
  /\ LastMethod = "tools/call"
  /\ cli_last.spawned > 0

C16_ArgumentVector ==
  C16_Case =>
    LET entries == LastArguments.entries
        n       == Len(entries)
        FlagOf(k) == IF Len(k) = 1 THEN "-" \o k ELSE "--" \o k
        Tok(i) ==
          LET k == entries[i][1]
              v == entries[i][2]
          IN IF SubSeq(k, 1, 1) = "_" THEN <<>>
             ELSE IF v.t = "bool" THEN (IF v.b THEN <<FlagOf(k)>> ELSE <<>>)
             ELSE IF v.t = "list"
                  THEN [j \in 1..(2 * Len(v.items)) |->
                          IF j % 2 = 1 THEN FlagOf(k)
                          ELSE str(v.items[j \div 2])]
                  ELSE <<FlagOf(k), str(v)>>
        Off(i) == Cardinality({p \in (1..(i - 1)) \X (1..Len(cli_last.argv)) :
                                 p[2] <= Len(Tok(p[1]))})
        flags == [p \in 1..Off(n + 1) |->
                    LET i == CHOOSE i \in 1..n : Off(i) < p /\ p <= Off(i + 1)
                    IN Tok(i)[p - Off(i)]]
        at == {i \in 1..n : entries[i][1] = "_args"}
        positional ==
          IF at = {} THEN <<>>
          ELSE LET v == entries[CHOOSE i \in at : TRUE][2]
               IN IF v.t = "list"
                  THEN [j \in 1..Len(v.items) |-> str(v.items[j])]
                  ELSE <<str(v)>>
    IN cli_last.argv = <<LastToolName>> \o flags \o positional

C16_Witness ==
  /\ C16_Case
  /\ cli_last.argv = <<"a", "-n", "3", "--name", "v", "x", "12">>
  /\ LastArguments.entries[1][1] = "_args"

(* ------------------- CLI adapter: tool descriptors --------------------- *)
\* C17: the description of a tool is, in this order of precedence, the
\* entry of its command in descriptions, the single description when
\* exactly one command is configured, the description extracted from the
\* help text, "Execute {command} command-line tool"; with several commands
\* an entry of descriptions overrides its own command only and the single
\* description is not used.
C17_Derived(c) == cli.exists /\ ~Has(cli.cache, c) /\ cli_last'.op = "get_metadata"

C17_DescriptionPrecedence ==
  [][\A i \in 1..Len(cli.commands) :
       C17_Derived(cli.commands[i]) =>
         LET c == cli.commands[i]
             entry == {k \in 1..Len(cli.descriptions) :
                         cli.descriptions[k][1] = c}
             h == get_help_text(cli_last'.probe[c])
         IN /\ Len(cli_last'.val.tools) >= i
            /\ cli_last'.val.tools[i].description =
                 IF entry # {}
                 THEN cli.descriptions[CHOOSE k \in entry : TRUE][2]
                 ELSE IF cli.description.some /\ Len(cli.commands) = 1
                      THEN cli.description.v
                      ELSE IF h.text.some
                           THEN extract_description(h.text.v, c)
                           ELSE "Execute " \o c \o " command-line tool"]_vars

C17_Witness ==
  /\ cli_last.op = "get_metadata"
  /\ cli.commands = <<"a", "b">>
  /\ cli.description = Some("custom description")
  /\ cli.descriptions = <<<<"a", "description of a">>>>
  /\ cli_last.probe["a"][1] = Completed(HelpLs, NoText)
  /\ cli_last.probe["b"][1] = Completed(HelpLs, NoText)
  /\ cli_last.val.tools[1].description = "description of a"
  /\ cli_last.val.tools[2].description = "ls - list directory contents"

\* C18: over any sequence of get_metadata and tools/list calls the
\* descriptor of a command is derived at most once: a command that has a
\* cached descriptor gets this descriptor again and no help run is made for
\* it (a derivation makes at most the -h and the --help run), every
\* configured command is cached after the call, and no step of the adapter
\* removes or changes a cached descriptor.
C18_Listing ==
  \/ cli_last'.op = "get_metadata"
  \/ cli_last'.op = "handle_request"
     /\ cli_last'.req.method = Some("tools/list")

C18_DerivedOnce ==
  [][cli.exists =>
       /\ \A c \in Cmds :
            Has(cli.cache, c) =>
              Has(cli'.cache, c) /\ Get(cli'.cache, c) = Get(cli.cache, c)
       /\ C18_Listing =>
            LET tools == IF cli_last'.op = "get_metadata"
                         THEN cli_last'.val.tools
                         ELSE cli_last'.resp.result.tools
                uncached == {c \in Cmds : /\ Configured(c)
                                          /\ ~Has(cli.cache, c)}
            IN /\ Len(tools) = Len(cli.commands)
               /\ \A i \in 1..Len(cli.commands) :
                    /\ Has(cli.cache, cli.commands[i]) =>
                         tools[i] = Get(cli.cache, cli.commands[i])
                    /\ Has(cli'.cache, cli.commands[i])
               /\ cli_last'.spawned <= 2 * Cardinality(uncached)]_vars

C18_Witness ==
  /\ cli_last.op = "handle_request"
  /\ cli_last.req.method = Some("tools/list")
  /\ cli.commands = <<"a", "b">>
  /\ cli_last.spawned = 0
  /\ cli_last.probe["a"][1] = Raised("not_found")
  /\ Len(cli_last.resp.result.tools) = 2
  /\ cli_last.resp.result.tools[1].description = "ls - list directory contents"
  /\ cli_last.resp.result.tools[1] = Get(cli.cache, "a")

(* ---------------------- External subprocess adapter -------------------- *)
C19_Call == ext_last.op \in {"get_metadata", "handle_request"}

\* C19 (as stated): constructing the external adapter spawns no process;
\* the first call of get_metadata or handle_request spawns exactly one
\* child; a get_metadata or handle_request made while the adapter holds a
\* child uses this child and spawns nothing.
C19_AsStated ==
  /\ ext_last.op = "construct" => children = <<>> /\ ext.process = 0
  /\ (C19_Call /\ ext_last.first) =>
       /\ ext_last.spawned = 1
       /\ Len(children) = 1
       /\ ext.process = 1
  /\ (C19_Call /\ ext_last.before # 0) =>
       /\ ext_last.spawned = 0
       /\ ext.process = ext_last.before

\* C19 (amended): as C19, except that the first call spawns its one child
\* only when the adapter has a command and the process can be started;
\* otherwise the call raises and there is no child.
C19_LazyConnect ==
  /\ ext_last.op = "construct" => children = <<>> /\ ext.process = 0
  /\ (C19_Call /\ ext_last.first) =>
       IF ext.command.some /\ ext_last.popen_ok
       THEN /\ ext_last.spawned = 1
            /\ Len(children) = 1
            /\ ext.process = 1
       ELSE /\ ext_last.raised
            /\ ext_last.spawned = 0
            /\ children = <<>>
            /\ ext.process = 0
  /\ (C19_Call /\ ext_last.before # 0) =>
       /\ ext_last.spawned = 0
       /\ ext.process = ext_last.before

C19_Witness ==
  /\ ext_last.op = "handle_request"
  /\ ~ext_last.first
  /\ ext_last.before = 1
  /\ ext.process = 1
  /\ children = <<"running">>
  /\ ext_last.spawned = 0
  /\ ~ext_last.raised
  /\ ext_last.sent = <<Sent("tools/call", Some(7))>>

\* C20 (as stated): at every point of any sequence of connect,
\* get_metadata, handle_request and disconnect calls, every child of the
\* adapter that is running is the adapter's current process handle (so
\* there is at most one).
C20_AsStated ==
  \A p \in 1..Len(children) : children[p] = "running" => ext.process = p

\* C21: disconnect on an adapter that holds no process changes nothing and
\* calls nothing; on an adapter that holds one it calls terminate and waits,
\* calls kill (and waits again) exactly when the child is running and does
\* not end within the 5 seconds, and leaves the child ended; it never raises
\* and always leaves the handle cleared, so that a second disconnect changes
\* nothing.
C21_Step == ext_last'.op = "disconnect" /\ ext_last' # ext_last

C21_Disconnect ==
  [][C21_Step =>
       /\ ~ext_last'.raised
       /\ ext'.process = 0
       /\ wire' = wire
       /\ ext.process = 0 =>
            /\ ext' = ext
            /\ children' = children
            /\ ext_last'.calls = <<>>
       /\ ext.process # 0 =>
            /\ ext' = [ext EXCEPT !.process = 0]
            /\ children' = [children EXCEPT ![ext.process] = "exited"]
            /\ SubSeq(ext_last'.calls, 1, 2) = <<"terminate", "wait">>
            /\ IF children[ext.process] = "running" /\ ~ext_last'.in_time
               THEN ext_last'.calls = <<"terminate", "wait", "kill", "wait">>
               ELSE ext_last'.calls = <<"terminate", "wait">>
       /\ ext_last.op = "disconnect" =>
            /\ ext' = ext
            /\ children' = children]_vars

C21_Witness ==
  /\ ext_last.op = "disconnect"
  /\ ext_last.before = 1
  /\ ext_last.calls = <<"terminate", "wait", "kill", "wait">>
  /\ children = <<"exited">>
  /\ ext.process = 0

\* C22 (as stated): a get_metadata or handle_request made when the child
\* held by the adapter has ended, or in which a line read from the child is
\* not JSON (or is missing because the child has gone), does not raise: it
\* returns a mapping with an error member.
C22_Case ==
  /\ C19_Call
  /\ \/ ext_last.before # 0 /\ ~ext_last.alive
     \/ ext_last.line \in {"invalid", "eof"}

C22_AsStated ==
  C22_Case =>
    /\ ~ext_last.raised
    /\ ext_last.val.kind = "error"

(* ------------------------- Protocol engine bridge ---------------------- *)
\* C23: when downstream.get_metadata() raises during the construction of
\* the bridge, the construction raises RuntimeError "Metadata retrieval
\* failed" caused by that exception, after logging it: the engine is not
\* constructed, nothing is registered, get_metadata has been called once
\* and there is no bridge object.
C23_Case == br_last.op = "construct" /\ br_last.got.raises

C23_MetadataFailure ==
  C23_Case =>
    /\ bridge.raised
    /\ ~bridge.exists
    /\ bridge.exc = "RuntimeError: Metadata retrieval failed"
    /\ bridge.cause = br_last.got.exc
    /\ bridge.log =
         <<Log("error", "Failed to retrieve metadata from downstream server: "
                          \o br_last.got.exc)>>
    /\ ~bridge.made
    /\ bridge.fastmcp.tools = <<>>
    /\ bridge.fastmcp.resources = <<>>
    /\ bridge.registered_tools = <<>>
    /\ bridge.gm_calls = 1

C23_Witness ==
  /\ C23_Case
  /\ br_last.engine_ok
  /\ bridge.exc = "RuntimeError: Metadata retrieval failed"
  /\ bridge.cause = "ValueError: boom"
  /\ ~bridge.made
  /\ bridge.gm_calls = 1

\* C24 (as stated): whatever the tools and resources lists of the metadata
\* are, the construction of the bridge succeeds (the metadata being
\* retrieved and the engine constructed), and the tools registered are, in
\* the order of the list, the first entries of each key among the entries
\* that are mappings with a key that is not empty; likewise the resources;
\* every other entry is skipped with one error or warning line.
C24_Case ==
  /\ br_last.op = "construct"
  /\ ~br_last.got.raises
  /\ br_last.engine_ok

C24_Firsts(entries) ==
  {i \in 1..Len(entries) :
     /\ entries[i].dict
     /\ Truthy(entries[i].key)
     /\ \A j \in 1..(i - 1) : entries[j].dict => entries[j].key # entries[i].key}

C24_Registered(entries, handlers) ==
  /\ Len(handlers) = Cardinality(C24_Firsts(entries))
  /\ \A i \in C24_Firsts(entries) :
       handlers[Cardinality({j \in C24_Firsts(entries) : j <= i})].name
         = KeyText(entries[i].key)

C24_AsStated ==
  C24_Case =>
    /\ ~bridge.raised
    /\ bridge.exists
    /\ C24_Registered(GetList(br_last.got.v.tools), bridge.fastmcp.tools)
    /\ C24_Registered(GetList(br_last.got.v.resources),
                      bridge.fastmcp.resources)
    /\ Cardinality({k \in 1..Len(bridge.log) :
                      bridge.log[k].level \in {"error", "warning"}})
         = Len(GetList(br_last.got.v.tools))
             - Cardinality(C24_Firsts(GetList(br_last.got.v.tools)))
           + Len(GetList(br_last.got.v.resources))
             - Cardinality(C24_Firsts(GetList(br_last.got.v.resources)))

\* C25: a registered tool function called with arguments A (an empty
\* mapping when none are given) calls downstream.handle_request once, with
\* the request tools/call, id 1, params {name: the name it was registered
\* with, arguments: A}, and a resource handler with resources/read, id 1,
\* params {uri}; what the downstream returns is returned as it is; when
\* the downstream raises, one error line is logged and the same exception
\* is raised.
C25_Case == br_last.op \in {"tool", "resource"}

C25_Handlers ==
  C25_Case =>
    /\ br_last.r.requests =
         IF br_last.op = "tool"
         THEN <<[method |-> "tools/call", id |-> 1,
                 params |->
                   [name |-> bridge.registered_tools[br_last.handler][1],
                    arguments |-> IF br_last.arguments.some
                                  THEN br_last.arguments.v
                                  ELSE Args(<<>>)]]>>
         ELSE <<[method |-> "resources/read", id |-> 1,
                 params |->
                   [uri |-> bridge.fastmcp.resources[br_last.handler].name]]>>
    /\ br_last.op = "tool" =>
         bridge.fastmcp.tools[br_last.handler].name
           = bridge.registered_tools[br_last.handler][1]
    /\ IF br_last.does.raises
       THEN /\ br_last.r.raised
            /\ br_last.r.exc = br_last.does.exc
            /\ Len(br_last.r.log) = 1
            /\ br_last.r.log[1].level = "error"
       ELSE /\ ~br_last.r.raised
            /\ br_last.r.ret = br_last.does.v
            /\ br_last.r.log = <<>>

C25_Witness ==
  /\ br_last.op = "tool"
  /\ br_last.handler = 2
  /\ Len(bridge.fastmcp.tools) = 2
  /\ bridge.fastmcp.tools[2].name = "b"
  /\ br_last.arguments = None(Args(<<>>))
  /\ br_last.r.requests[1].params.name = "b"
  /\ br_last.r.requests[1].params.arguments = Args(<<>>)
  /\ br_last.r.raised
  /\ br_last.r.exc = "RuntimeError: Not connected"
  /\ br_last.r.log =
       <<Log("error",
             "Error executing tool 'b': RuntimeError: Not connected")>>

(* ---------------------- serve and the launcher ------------------------- *)
\* C26: serve(chain) with a chain that has no get_metadata or no
\* handle_request raises the TypeError of the protocol check and takes no
\* other step: no bridge is constructed, get_metadata is not called, no
\* engine is constructed and run is not called.
C26_Case ==
  /\ launch_last.op = "serve"
  /\ \/ launch_last.chain.gm = "missing"
     \/ launch_last.chain.hr = "missing"

C26_TypeErrorFirst ==
  C26_Case =>
    /\ launch_last.r.raised
    /\ startswith(launch_last.r.exc, "TypeError: Chain must implement")
    /\ launch_last.r.steps = <<>>

C26_Witness ==
  /\ C26_Case
  /\ launch_last.chain = PyObj("callable", "missing", FALSE)
  /\ ~launch_last.got.raises
  /\ launch_last.engine_ok
  /\ launch_last.run_ok
  /\ launch_last.r.raised
  /\ launch_last.r.steps = <<>>

\* C27: the chain found in a loaded module is the attribute chain when it
\* is there and has callable get_metadata and handle_request, whatever the
\* other attributes are; otherwise the first attribute in the order of dir
\* whose name has no leading underscore and which has them; otherwise the
\* first such attribute that is an MCPChainBuilder; otherwise none. An
\* attribute with a leading underscore is never the one found.
C27_Case ==
  /\ launch_last.op = "main"
  /\ Len(launch_last.argv) = 2
  /\ launch_last.file_exists
  /\ launch_last.load_ok

C27_Public(i) ==
  launch_last.module[i].present /\ SubSeq(Names[i], 1, 1) # "_"
C27_Satisfies(i) ==
  /\ launch_last.module[i].present
  /\ launch_last.module[i].gm = "callable"
  /\ launch_last.module[i].hr = "callable"
C27_Least(S) == IF S = {} THEN 0 ELSE CHOOSE i \in S : \A j \in S : i <= j

C27_FirstHit ==
  C27_Case =>
    LET named == {i \in 1..Len(Names) : Names[i] = "chain" /\ C27_Satisfies(i)}
        second == {i \in 1..Len(Names) : C27_Public(i) /\ C27_Satisfies(i)}
        third == {i \in 1..Len(Names) :
                    C27_Public(i) /\ launch_last.module[i].builder}
    IN /\ launch_last.r.chosen =
            IF named # {} THEN C27_Least(named)
            ELSE IF second # {} THEN C27_Least(second)
                 ELSE C27_Least(third)
       /\ launch_last.r.chosen # 0 =>
            SubSeq(Names[launch_last.r.chosen], 1, 1) # "_"

C27_Witness ==
  /\ C27_Case
  /\ launch_last.module[1] = PyObj("callable", "callable", FALSE)
  /\ launch_last.module[2] = PyObj("callable", "callable", FALSE)
  /\ launch_last.module[3] = PyObj("callable", "callable", FALSE)
  /\ launch_last.r.chosen = 3
  /\ Names[launch_last.r.chosen] = "chain"

\* C28: main ends with sys.exit(1) when sys.argv has not two items, when
\* the file does not exist, when loading the script raises, when no chain
\* is found and when serve raises, and returns otherwise; the checks are
\* made in this order: the script is not loaded when one of the first two
\* fails, the chain is not looked for when the load fails, and serve is
\* called at most once and only after a chain has been found.
C28_Count(steps, x) == Cardinality({k \in 1..Len(steps) : steps[k] = x})

C28_ExitCodes ==
  launch_last.op = "main" =>
    LET steps == launch_last.r.steps
        checked == Len(launch_last.argv) = 2 /\ launch_last.file_exists
        loaded == checked /\ launch_last.load_ok
        found == loaded /\ launch_last.r.chosen # 0
        served == found /\ C28_Count(steps, "run") = 1 /\ launch_last.run_ok
    IN /\ ~launch_last.r.raised
       /\ launch_last.r.exit = IF served THEN None(0) ELSE Some(1)
       /\ C28_Count(steps, "exec_module") = IF checked THEN 1 ELSE 0
       /\ C28_Count(steps, "find_chain") = IF loaded THEN 1 ELSE 0
       /\ C28_Count(steps, "serve") = IF found THEN 1 ELSE 0
       /\ checked => steps[1] = "exec_module"
       /\ loaded => steps[2] = "find_chain"
       /\ found => steps[3] = "serve"
       /\ ~found => C28_Count(steps, "get_metadata") = 0
                     /\ C28_Count(steps, "run") = 0

C28_Witness ==
  /\ launch_last.op = "main"
  /\ launch_last.r.chosen = 3
  /\ launch_last.got.raises
  /\ launch_last.r.steps =
       <<"exec_module", "find_chain", "serve", "FastMCPServer", "get_metadata">>
  /\ launch_last.r.exit = Some(1)

\* a call of handle_request on the front adapter has been made
C29_Case == front_last.op = "handle_request"

\* the serialized parse error, character by character
C29_ParseErrorText ==
  "{\"jsonrpc\": \"2.0\", \"id\": null, \"error\": {\"code\": -32700, \"message\": \"Parse error\"}}"

\* C29: handle_request of the front adapter, given a string that is not
\* valid JSON, returns the serialized response with id null and error code
\* -32700, message "Parse error", and the wrapped chain is not called; given
\* valid JSON, the wrapped chain's handle_request is called exactly once with
\* the parsed value, and what it returns is returned serialized (what it
\* raises is raised)
C29_ParseError ==
  C29_Case =>
    IF ~loads(front_last.request).ok
    THEN /\ front_last.r.requests = <<>>
         /\ ~front_last.r.raised
         /\ front_last.r.ret = C29_ParseErrorText
    ELSE /\ front_last.r.requests = <<loads(front_last.request).v>>
         /\ front_last.r.raised = front_last.does.raises
         /\ front_last.does.raises => front_last.r.exc = front_last.does.exc
         /\ ~front_last.does.raises =>
              /\ front_last.r.ret = dumps(front_last.does.v)
              /\ loads(front_last.r.ret).ok
              /\ loads(front_last.r.ret).v = front_last.does.v

\* the request of the repository's test, which is not JSON, has been answered
\* with the parse error and nothing was forwarded
C29_Witness ==
  /\ C29_Case
  /\ front_last.request = "{\"method\": \"tools/call\", \"params\": invalid}"
  /\ front_last.r.requests = <<>>
  /\ front_last.r.ret = C29_ParseErrorText

\* the positions at which the handshake request is written on a wire
C30_Inits(w) == {i \in 1..Len(w) : w[i] = Write(InitRequest)}

\* what a step adds to the wire of child p
C30_Added(p) ==
  IF p <= Len(wire) THEN SubSeq(wire'[p], Len(wire[p]) + 1, Len(wire'[p]))
  ELSE wire'[p]

\* the writes of the handshake request a step makes to child p beyond the
\* one that follows its spawning
C30_Again(p) ==
  IF p <= Len(wire) THEN C30_Inits(C30_Added(p))
  ELSE C30_Inits(C30_Added(p)) \ {1}

\* C30: on the pipes of every child the adapter has spawned, the first thing
\* is the write of the initialize request (id 1), the second the read of one
\* line, and every later write is followed by one read; the adapter writes
\* the handshake once per child: an initialize request is written again only
\* by handle_request, once, when its caller's request is that request
C30_Step ==
  \A p \in 1..Len(wire') :
    /\ Len(wire'[p]) >= 2
    /\ wire'[p][1] = Write(InitRequest)
    /\ \A i \in 1..Len(wire'[p]) :
         wire'[p][i].io = IF i % 2 = 1 THEN "write" ELSE "read"
    /\ C30_Again(p) # {} =>
         /\ ext_last'.op = "handle_request"
         /\ Cardinality(C30_Again(p)) = 1
         /\ ext_last'.sent[Len(ext_last'.sent)] = InitRequest
         /\ Len(ext_last'.sent) = IF p <= Len(wire) THEN 1 ELSE 2
C40_Case ==
  /\ ext_last.op \in {"connect", "get_metadata", "handle_request"}
  /\ ext_last.spawned = 1
  /\ ext_last.raised
  /\ ext_last.sent = <<InitRequest>>
  /\ ext_last.line \in {"eof", "invalid"}

\* C40 (as stated): after a connect that raised during the initialize
\* exchange the adapter holds no process handle, so that the next call
\* spawns and initializes a new child
C40_AsStated == C40_Case => ext.process = 0

\* serve(chain) is called with a chain builder that has no terminal
C36_Case ==
  /\ launch_last.op = "serve"
  /\ launch_last.chain = PyObj("callable", "callable", TRUE)

\* C36 (as stated): serve of a bare chain builder passes the validation and
\* fails with the error "No downstream server configured"; run is not
\* entered
C36_AsStated ==
  C36_Case =>
    /\ launch_last.r.raised
    /\ launch_last.r.exc = "ValueError: No downstream server configured"
    /\ \A k \in 1..Len(launch_last.r.steps) : launch_last.r.steps[k] # "run"

\* C36 (amended): serve of a bare chain builder passes the validation, the
\* bridge calls get_metadata, which raises ValueError "No downstream server
\* configured", and serve fails with RuntimeError "Metadata retrieval
\* failed" raised from it; no engine is constructed and run is not entered
C36_Wrapped ==
  C36_Case =>
    /\ launch_last.r.raised
    /\ launch_last.r.steps = <<"FastMCPServer", "get_metadata">>
    /\ launch_last.r.exc = "RuntimeError: Metadata retrieval failed"
    /\ launch_last.r.cause = "ValueError: No downstream server configured"

C36_Witness ==
  /\ C36_Case
  /\ ~launch_last.got.raises
  /\ launch_last.engine_ok
  /\ launch_last.run_ok
  /\ launch_last.r.raised
  /\ launch_last.r.cause = "ValueError: No downstream server configured"

\* the launcher has loaded a script in which every MCPChainBuilder has the
\* methods of its class
C37_Case ==
  /\ launch_last.op = "main"
  /\ Len(launch_last.argv) = 2
  /\ launch_last.file_exists
  /\ launch_last.load_ok
  /\ \A i \in 1..Len(Names) :
       launch_last.module[i].builder =>
         /\ launch_last.module[i].gm = "callable"
         /\ launch_last.module[i].hr = "callable"

C37_Public(i) ==
  launch_last.module[i].present /\ SubSeq(Names[i], 1, 1) # "_"
C37_Satisfies(i) ==
  /\ launch_last.module[i].present
  /\ launch_last.module[i].gm = "callable"
  /\ launch_last.module[i].hr = "callable"
C37_Least(S) == IF S = {} THEN 0 ELSE CHOOSE i \in S : \A j \in S : i <= j

\* C37: every attribute the third strategy of the launcher would match (a
\* public name bound to an MCPChainBuilder) is matched by the second, so the
\* third never gives the result: the attribute found is chain when it
\* satisfies the contract, otherwise the first public attribute that does,
\* and nothing is found exactly when no such attribute exists
C37_ThirdNeverDecides ==
  C37_Case =>
    LET named == {i \in 1..Len(Names) : Names[i] = "chain" /\ C37_Satisfies(i)}
        second == {i \in 1..Len(Names) : C37_Public(i) /\ C37_Satisfies(i)}
        third == {i \in 1..Len(Names) :
                    C37_Public(i) /\ launch_last.module[i].builder}
    IN /\ third \subseteq second
       /\ found_by(launch_last.module) # 3
       /\ launch_last.r.chosen =
            IF named # {} THEN C37_Least(named) ELSE C37_Least(second)
       /\ launch_last.r.chosen = 0 <=> (named = {} /\ second = {})

\* a script whose only chain is a builder bound to app: it is found, by the
\* second strategy
C37_Witness ==
  /\ C37_Case
  /\ launch_last.module[2] = PyObj("callable", "callable", TRUE)
  /\ ~launch_last.module[3].present
  /\ ~launch_last.module[4].present
  /\ launch_last.r.chosen = 2
  /\ found_by(launch_last.module) = 2

\* the launcher has loaded a script without an attribute chain and has
\* found something to serve
C38_Case ==
  /\ launch_last.op = "main"
  /\ Len(launch_last.argv) = 2
  /\ launch_last.file_exists
  /\ launch_last.load_ok
  /\ ~launch_last.module[NameOfChain].present
  /\ launch_last.r.chosen # 0

\* C38 (as stated): when the script has no attribute chain, what the
\* launcher selects and serves is an instance, never a class that defines
\* get_metadata and handle_request
C38_AsStated == C38_Case => ~launch_last.module[launch_last.r.chosen].class

\* C35: the bridge calls get_metadata of the downstream once, while it is
\* constructed; a call of a registered tool function, of a registered
\* resource handler or of run calls nothing of the downstream but
\* handle_request, and leaves the bridge with its engine, the registered
\* tools and the registered resources as the construction made them
C35_Step ==
  /\ bridge.exists => bridge' = bridge
  /\ bridge'.exists =>
       /\ bridge'.gm_calls = 1
       /\ \A k \in 1..Len(br_last'.r.calls) :
            br_last'.r.calls[k] = "handle_request"
       /\ br_last'.op = "run" => br_last'.r.calls = <<>>
C35_Snapshot == [][C35_Step]_vars

\* a bridge with a tool and a resource has run and has served a resource
\* read by one handle_request
C35_Witness ==
  /\ bridge.exists
  /\ Len(bridge.fastmcp.tools) >= 1
  /\ Len(bridge.fastmcp.resources) >= 1
  /\ bridge.gm_calls = 1
  /\ br_last.op = "resource"
  /\ br_last.r.calls = <<"handle_request">>

\* two successive get_metadata() calls on the chain, with the same
\* transformer and the same outcomes of the help runs
C39_Case ==
  /\ cli_last.op = "chain_get_metadata"
  /\ cli_last'.op = "chain_get_metadata"
  /\ cli_last'.transformer = cli_last.transformer
  /\ cli_last'.probe = cli_last.probe

\* C39 (as stated): two successive get_metadata() calls on a chain whose
\* metadata transformer edits the tool entries in place return equal
\* metadata, and the descriptors the CLI adapter has memoized are as they
\* were
C39_AsStated ==
  [][C39_Case => /\ cli_last'.val = cli_last.val
                 /\ \A i \in 1..Len(cli.cache) : cli'.cache[i] = cli.cache[i]]_vars

(* ------------------ External adapter: calls on the pipes --------------- *)

\* The case of C31: caller t's call has returned a line, no two calls of
\* the adapter have overlapped, and the child it wrote to has emitted no
\* line other than answers
C31_Case(t) ==
  /\ thr[t].returned
  /\ ~phist.overlapped
  /\ kids[thr[t].child].extra = 0

\* C31: when calls do not overlap and the child answers each message with
\* exactly one line, in order, a call writes its request unchanged as one
\* message (after the two handshake steps when it started the child), reads
\* one line for it, and the line it returns is the answer to its own
\* request: its request is the k-th message written to the child and its
\* line the k-th the child emitted.
C31_OwnResponse ==
  \A t \in Callers :
    C31_Case(t) =>
      /\ thr[t].on = thr[t].child
      /\ kids[thr[t].child].log[thr[t].wrote].req = thr[t].req
      /\ kids[thr[t].child].log[thr[t].wrote].by = t
      /\ thr[t].got.answers = thr[t].wrote
      /\ thr[t].got.pos = thr[t].wrote
      /\ thr[t].got.by = t
      /\ thr[t].nwrites = (IF thr[t].spawned THEN 2 ELSE 1)
      /\ thr[t].nreads = thr[t].nwrites

\* C31 witness: a second call on the same child returned the third line,
\* the answer to the third message
C31_Witness ==
  \E t \in Callers :
    /\ C31_Case(t)
    /\ ~thr[t].spawned
    /\ thr[t].op = "handle_request"
    /\ thr[t].wrote = 3
    /\ thr[t].got.answers = 3

\* The case of C32: caller t's call has returned a line, no two calls have
\* overlapped, and the child it wrote to had emitted an unsolicited line
\* before the call wrote its request
C32_Case(t) ==
  /\ thr[t].returned
  /\ ~phist.overlapped
  /\ thr[t].lag >= 1

\* an earlier child of the adapter emitted an unsolicited line
C32_EarlierChild(t) ==
  \E p \in 1..(thr[t].child - 1) : kids[p].extra >= 1

C33_InFlight(t) == thr[t].pc \in {"recv", "wait"}

\* C33: nothing excludes two requests in flight on the one pipe: while a
\* caller's request is in flight the other caller is free to begin a call
\* of its own and, once begun, to write its request to the same child.
C33_NothingExcludes ==
  \A t \in Callers : \A u \in Callers \ {t} :
    C33_InFlight(t) =>
      /\ (thr[u].pc = "idle" /\ phist.calls < MaxPipeCalls)
           => ENABLED PipeCall(u, "handle_request", Sent("tools/call", Some(7)))
      /\ (thr[u].pc = "send" /\ pproc # 0 /\ kids[pproc].state = "running")
           => ENABLED (PipeSend(u) /\ thr'[u].pc = "recv")

\* C33 witness: two handle_request calls on a child that answers every
\* message in order, and caller t was returned the answer to the other
\* caller's request
C33_Witness ==
  \E t \in Callers : \E u \in Callers \ {t} :
    /\ thr[t].returned
    /\ thr[t].op = "handle_request"
    /\ thr[u].op = "handle_request"
    /\ thr[u].child = thr[t].child
    /\ kids[thr[t].child].extra = 0
    /\ thr[t].got.by = u
    /\ thr[t].got.answers = thr[u].wrote
    /\ thr[t].got.answers # thr[t].wrote

\* The case of C34: caller t is inside readline, for the handshake or for
\* its own request, on a child that is running and has no line to give
C34_Case(t) ==
  /\ thr[t].pc \in {"init_wait", "wait"}
  /\ kids[thr[t].on].state = "running"
  /\ kids[thr[t].on].stdout = <<>>

\* C34 step: a step taken while caller t waits on a silent running child
\* leaves the caller where it is; a step that takes a caller out of
\* readline finds a line to take or the child ended, and a call that
\* returns has taken a line from the child
C34_Step ==
  \A t \in Callers :
    /\ C34_Case(t) => thr'[t] = thr[t]
    /\ (thr[t].pc \in {"init_wait", "wait"} /\ thr'[t].pc # thr[t].pc)
         => /\ (kids[thr[t].on].stdout # <<>>
                  \/ kids[thr[t].on].state = "exited")
            /\ thr'[t].returned
                 => kids'[thr[t].on].reads = kids[thr[t].on].reads + 1

\* C34: get_metadata() and handle_request() block in readline with no
\* timeout: the call goes on only after the child has emitted a line or
\* ended, and while the child runs and emits nothing no step of the adapter,
\* of the other caller or of disconnect's owner ends the wait.
C34_Blocks == [][C34_Step]_vars

\* C34 witness: a get_metadata call waits for the answer to its tools/list
\* request on a running child that has taken the request and emitted
\* nothing for it
C34_Witness ==
  \E t \in Callers :
    /\ C34_Case(t)
    /\ thr[t].pc = "wait"
    /\ thr[t].op = "get_metadata"
    /\ kids[thr[t].on].emitted = kids[thr[t].on].reads
    /\ pproc = thr[t].on

====
